---- MODULE Spec2Model ----
EXTENDS Integers, Sequences, FiniteSets, TLC

(***************************************************************************)
(* Model of the pipeline engine: Orchestrator.run (src/orchestrator.py)    *)
(* driving ConditionalRouterTool and DataAggregatorTool                    *)
(* (src/tools/built_in_tools.py) over the flat State Store.                *)
(*                                                                         *)
(* Python strings that the code concatenates, splits or prefix-tests (state *)
(* keys, agent ids, output names) are sequences of tokens; "." is a token   *)
(* of its own, so f"{a}.{b}", startswith, split('.') and "'.' in key" are   *)
(* computed as the code computes them.                                      *)
(***************************************************************************)

\* ------------------------------------------------------------------ bounds
MaxN == 2

\* The run loop is cut after StepCap iterations (a router that clears its own
\* counter never terminates); a well-formed loop of N <= MaxN iterations with
\* a two-agent body that runs before the router needs 3 * N + 4 iterations.
StepCap == 3 * MaxN + 5

\* The longest linear chain of agents explored.
MaxK == 3

\* ----------------------------------------------------------- Python values
\* Every value has the same record shape, so values of different Python
\* types can be compared.
PyNone == [t |-> "none", i |-> 0, s |-> <<>>, l |-> <<>>, d |-> <<>>]
PyInt(n) == [t |-> "int", i |-> n, s |-> <<>>, l |-> <<>>, d |-> <<>>]
PyStr(x) == [t |-> "str", i |-> 0, s |-> x, l |-> <<>>, d |-> <<>>]
PyList(x) == [t |-> "list", i |-> 0, s |-> <<>>, l |-> x, d |-> <<>>]
PyDict(f) == [t |-> "dict", i |-> 0, s |-> <<>>, l |-> <<>>, d |-> f]

EmptyDict == <<>>

\* Python truthiness (bool(v)).
Truthy(v) ==
  CASE v.t = "none" -> FALSE
    [] v.t = "int" -> v.i # 0
    [] v.t = "str" -> v.s # <<>>
    [] v.t = "list" -> v.l # <<>>
    [] v.t = "dict" -> DOMAIN v.d # {}

\* dict.get(k, default) and d[k] = v on Python dicts (TLA+ functions).
Get(f, k, default) == IF k \in DOMAIN f THEN f[k] ELSE default

Put(f, k, v) == [x \in (DOMAIN f) \cup {k} |-> IF x = k THEN v ELSE f[x]]

Remove(f, ks) == [x \in (DOMAIN f) \ ks |-> f[x]]

\* ----------------------------------------------------------------- strings
Dot == "."

\* f"{a}.{b}"
Join(a, b) == a \o <<Dot>> \o b

\* s.startswith(p)
StartsWith(s, p) == Len(p) <= Len(s) /\ SubSeq(s, 1, Len(p)) = p

\* '.' in s
HasDot(s) == \E n \in 1..Len(s) : s[n] = Dot

\* s.split('.')
RECURSIVE Split(_)
Split(s) ==
  IF ~HasDot(s) THEN <<s>>
  ELSE LET n == CHOOSE m \in 1..Len(s) :
                  s[m] = Dot /\ \A q \in 1..(m - 1) : s[q] # Dot
       IN <<SubSeq(s, 1, n - 1)>> \o Split(SubSeq(s, n + 1, Len(s)))

\* ".".join(parts)
RECURSIVE JoinAll(_)
JoinAll(parts) ==
  IF parts = <<>> THEN <<>>
  ELSE IF Len(parts) = 1 THEN parts[1]
  ELSE Join(parts[1], JoinAll(Tail(parts)))

InitialInputKey == <<"pipeline", Dot, "initial_input">>

InitialInputPrefix == InitialInputKey \o <<Dot>>

\* Mutant: text that is not a number counts as 0.
ParseInt_Lenient(v) ==
  CASE v.t = "int" -> [ok |-> TRUE, n |-> v.i]
    [] v.t = "str" /\ v.s \in {<<"1">>, <<"2">>, <<"3">>} ->
         [ok |-> TRUE,
          n |-> CASE v.s = <<"1">> -> 1 [] v.s = <<"2">> -> 2 [] v.s = <<"3">> -> 3]
    [] v.t = "str" /\ v.s = <<"-1">> -> [ok |-> TRUE, n |-> -1]
    [] OTHER -> [ok |-> TRUE, n |-> 0]

\* int(v) of the router's iteration source: [ok, n].
ParseInt(v) ==
  CASE v.t = "int" -> [ok |-> TRUE, n |-> v.i]
    [] v.t = "str" /\ v.s \in {<<"0">>, <<"1">>, <<"2">>, <<"3">>} ->
         [ok |-> TRUE,
          n |-> CASE v.s = <<"0">> -> 0 [] v.s = <<"1">> -> 1
                  [] v.s = <<"2">> -> 2 [] v.s = <<"3">> -> 3]
    [] v.t = "str" /\ v.s = <<"-1">> -> [ok |-> TRUE, n |-> -1]
    [] OTHER -> [ok |-> FALSE, n |-> 0]


\* ------------------------------------------------------------ configuration
\* Agent ids and names of the pipelines explored (the looping pipeline of
\* tests/test_orchestrator.py and variants of its shape).
setup == <<"setup">>
router == <<"router">>
gen == <<"gen">>
chk == <<"chk">>
post == <<"post">>

counter == <<"counter">>
all_items == <<"all_items">>
text == <<"text">>

NextStepKey == <<"_next_step_id">>
UpdateStateKey == <<"_update_state">>
ClearKey == <<"_clear_agent_outputs">>

In(name, src) == [name |-> name, src |-> src]

NoLoopConfig ==
  [present |-> FALSE, total_iterations_from |-> PyNone,
   loop_body_start_id |-> PyNone, counter_name |-> PyNone,
   accumulators |-> <<>>, loop_body_agents |-> <<>>]

\* "loop_config": {} -- the key is there, the object has no entry, so every
\* loop_config.get(...) gives its default.
EmptyLoopConfig == [NoLoopConfig EXCEPT !.present = TRUE]

ToolConfig(loop, else, sources) ==
  [loop_config |-> loop, else_execute_step |-> else, sources |-> sources]

Agent(type, tool, inputs, outputs, tc) ==
  [type |-> type, tool_name |-> tool, inputs |-> inputs, outputs |-> outputs,
   tool_config |-> tc]

Shapes == {"loop", "loop2", "dowhile"}

\* k: the knobs of one pipeline definition.
\*   shape     "loop":    setup -> router -> gen -> router ... -> post
\*             "loop2":   setup -> router -> gen -> chk -> router ... -> post,
\*                        gen also reads chk's output of the previous iteration
\*             "dowhile": gen -> chk -> router -> gen ... -> post
\*                        (start_agent = gen, the body runs before the router)
\*   n         total_iterations
\*   selfclear the router names itself in loop_body_agents
\*   nullnote  setup's literal input "z" is null (JSON null) instead of 7
Knobs ==
  [shape : Shapes, n : 0..MaxN, selfclear : BOOLEAN, nullnote : BOOLEAN]

BodyAgents(k) ==
  (IF k.shape = "loop" THEN <<gen>> ELSE <<gen, chk>>)
    \o (IF k.selfclear THEN <<router>> ELSE <<>>)

LoopConfig(k) ==
  [present |-> TRUE,
   total_iterations_from |->
     IF k.shape = "dowhile" THEN PyInt(k.n) ELSE PyStr(<<"num_items">>),
   loop_body_start_id |-> PyStr(gen),
   counter_name |-> PyStr(counter),
   accumulators |-> <<[out |-> all_items, in |-> <<"item">>]>>,
   loop_body_agents |-> BodyAgents(k)]

AgentIds(k) ==
  CASE k.shape = "loop" -> {setup, router, gen, post}
    [] k.shape = "loop2" -> {setup, router, gen, chk, post}
    [] k.shape = "dowhile" -> {router, gen, chk, post}

AgentSpec(k, a) ==
  CASE a = setup ->
         Agent("tool_agent", "DataAggregatorTool",
               <<In(<<"n">>, PyInt(k.n)),
                 In(<<"z">>, IF k.nullnote THEN PyNone ELSE PyInt(7))>>,
               <<<<"actual_loop_count">>, <<"note">>>>,
               ToolConfig(NoLoopConfig, PyNone,
                          <<[new |-> <<"actual_loop_count">>, src |-> <<"n">>],
                            [new |-> <<"note">>, src |-> <<"z">>]>>))
    [] a = router ->
         Agent("tool_agent", "ConditionalRouterTool",
               (IF k.shape = "dowhile" THEN <<>>
                ELSE <<In(<<"num_items">>,
                          PyStr(Join(setup, <<"actual_loop_count">>)))>>)
                 \o <<In(<<"item">>, PyStr(Join(gen, text)))>>,
               <<all_items>>,
               ToolConfig(LoopConfig(k), PyStr(post), <<>>))
    [] a = gen ->
         Agent("llm_agent", "",
               IF k.shape = "dowhile"
                 THEN <<In(<<"topic">>, PyStr(InitialInputKey))>>
                 ELSE <<In(<<"iter">>, PyStr(Join(router, counter)))>>
                        \o (IF k.shape = "loop2"
                              THEN <<In(<<"prev">>, PyStr(Join(chk, <<"out">>)))>>
                              ELSE <<>>),
               <<text>>,
               ToolConfig(NoLoopConfig, PyNone, <<>>))
    [] a = chk ->
         Agent("DataAggregatorTool", "",
               <<In(<<"t">>, PyStr(Join(gen, text)))>>,
               <<<<"out">>>>,
               ToolConfig(NoLoopConfig, PyNone,
                          <<[new |-> <<"out">>, src |-> <<"t">>]>>))
    [] a = post ->
         Agent("tool_agent", "DataAggregatorTool",
               <<In(<<"data">>, PyStr(Join(router, all_items)))>>
                 \o (IF k.shape = "dowhile" THEN <<>>
                     ELSE <<In(<<"note">>, PyStr(Join(setup, <<"note">>)))>>),
               <<<<"processed">>>>,
               ToolConfig(NoLoopConfig, PyNone,
                          <<[new |-> <<"processed">>, src |-> <<"data">>]>>))

\* routing: {"<id>": {"next": <id or null>}}
RoutingNext(k, a) ==
  CASE a = setup -> PyStr(router)
    [] a = router -> PyStr(post)
    [] a = gen -> IF k.shape = "loop" THEN PyStr(router) ELSE PyStr(chk)
    [] a = chk -> PyStr(router)
    [] a = post -> PyNone

Pipeline(k) ==
  [knobs |-> k,
   initial_input |-> PyStr(<<"seed">>),
   start_agent |-> IF k.shape = "dowhile" THEN PyStr(gen) ELSE PyStr(setup),
   agents |-> [a \in AgentIds(k) |-> AgentSpec(k, a)],
   routing |-> [a \in AgentIds(k) |-> RoutingNext(k, a)]]

\* Looping pipelines whose router takes its total of iterations from
\* another place, or has no counter name. source:
\*   "literal"     total_iterations_from is the integer n
\*   "input"       it names the input num_items, an integer literal n of the
\*                 router's inputs block
\*   "text"        num_items is read from the initial input, the text of n
\*   "absent"      it names num_items, which the inputs block does not have
\*   "null"        num_items is a null literal
\*   "word"        num_items is read from the initial input, which is "x"
\*   "list"        num_items is a list literal
\*   "unnamed"     total_iterations_from is the empty string
\*   "untyped"     total_iterations_from is missing from loop_config
\*   "negative"    num_items is the integer literal -1
\*   "negtext"     num_items is read from the initial input, which is "-1"
\*   "negliteral"  total_iterations_from is the integer -1
\* counter: "named", "missing" (no counter_name) or "empty" (counter_name "").
GoodSources == {"literal", "input", "text"}

BadSources ==
  {"absent", "null", "word", "list", "unnamed", "untyped",
   "negative", "negtext", "negliteral"}

LoopCfgKnobs ==
  {f \in [shape : {"loop", "dowhile"}, n : 0..MaxN, selfclear : {FALSE},
          nullnote : {FALSE}, source : GoodSources \cup BadSources,
          counter : {"named", "missing", "empty", "dotted"}] :
     /\ f.source \in BadSources => f.n = 1
     /\ f.counter = "dotted" => f.source = "literal" /\ f.n = 1}

SourceOf(f) ==
  CASE f.source = "literal" -> PyInt(f.n)
    [] f.source = "negliteral" -> PyInt(-1)
    [] f.source = "unnamed" -> PyStr(<<>>)
    [] f.source = "untyped" -> PyNone
    [] OTHER -> PyStr(<<"num_items">>)

NumItemsInput(f) ==
  CASE f.source = "input" -> <<In(<<"num_items">>, PyInt(f.n))>>
    [] f.source = "negative" -> <<In(<<"num_items">>, PyInt(-1))>>
    [] f.source = "null" -> <<In(<<"num_items">>, PyNone)>>
    [] f.source = "list" -> <<In(<<"num_items">>, PyList(<<>>))>>
    [] f.source \in {"text", "word", "negtext"} ->
         <<In(<<"num_items">>, PyStr(InitialInputKey))>>
    [] OTHER -> <<>>

InitialInputOf(f) ==
  CASE f.source = "text" -> PyStr(<<ToString(f.n)>>)
    [] f.source = "word" -> PyStr(<<"x">>)
    [] f.source = "negtext" -> PyStr(<<"-1">>)
    [] OTHER -> PyStr(<<"seed">>)

\* A counter name that is a fully-qualified key.
dotted_counter == <<"loop", Dot, "count">>

CounterNameOf(f) ==
  CASE f.counter = "named" -> PyStr(counter)
    [] f.counter = "missing" -> PyNone
    [] f.counter = "empty" -> PyStr(<<>>)
    [] f.counter = "dotted" -> PyStr(dotted_counter)

LoopCfgPipeline(f) ==
  LET base == Pipeline([shape |-> f.shape, n |-> f.n, selfclear |-> FALSE,
                        nullnote |-> FALSE])
  IN [base EXCEPT
        !.knobs = f,
        !.initial_input = InitialInputOf(f),
        !.agents[router].inputs =
          NumItemsInput(f) \o <<In(<<"item">>, PyStr(Join(gen, text)))>>,
        !.agents[router].tool_config.loop_config.total_iterations_from =
          SourceOf(f),
        !.agents[router].tool_config.loop_config.counter_name =
          CounterNameOf(f)]

\* Linear pipelines (the shape of simple_linear_pipeline.json run by
\* tests/test_orchestrator.py): agents 1..k chained by the routing table,
\* parse -> generate -> write -> ...; each agent reads the output "out" of
\* the one before it, the first reads the initial input.
parse == <<"parse">>
generate == <<"generate">>
write == <<"write">>
ghost == <<"ghost">>
out_name == <<"out">>

StepId(i) ==
  CASE i = 1 -> parse
    [] i = 2 -> generate
    [] i = 3 -> write
    [] OTHER -> <<"step" \o ToString(i)>>

\* What is wrong with the definition, at agent number `at`:
\*   "none"     nothing
\*   "start"    start_agent names an id that is not in the agent list
\*   "next"     the routing entry of the agent names such an id
\*   "override" the agent is a router whose else_execute_step names such an id
\*   "type"     the agent's type is neither llm_agent, tool_agent nor a tool
\*   "tool"     the agent is a tool_agent whose tool_name is not registered
Faults == {"none", "start", "next", "override", "type", "tool"}

\* k agents; hint: agent `at` has a second input whose source path is in no
\* state ("pipeline.initial_input.hint" of a string initial input).
ChainKnobs ==
  {c \in [k : 1..MaxK, fault : Faults, at : 1..MaxK, hint : BOOLEAN,
            list : BOOLEAN] :
     /\ c.at <= c.k
     /\ c.fault \in {"none", "start"} => c.at = 1}

ChainInputs(c, i) ==
  <<IF i = 1 THEN In(<<"topic">>, PyStr(InitialInputKey))
    ELSE In(<<"prev">>, PyStr(Join(StepId(i - 1), out_name)))>>
    \o (IF c.hint /\ i = c.at
          THEN <<In(<<"hint">>, PyStr(InitialInputPrefix \o <<"hint">>))>>
          ELSE <<>>)

ChainCopy(i) ==
  ToolConfig(NoLoopConfig, PyNone,
             <<[new |-> out_name, src |-> IF i = 1 THEN <<"topic">> ELSE <<"prev">>]>>)

\* A model agent; "output_format": "list" is present only when asked for.
LLMAgent(c, i) ==
  LET agent == Agent("llm_agent", "", ChainInputs(c, i), <<out_name>>,
                     ToolConfig(NoLoopConfig, PyNone, <<>>))
  IN IF c.list
       THEN [f \in DOMAIN agent \cup {"output_format"} |->
               IF f = "output_format" THEN "list" ELSE agent[f]]
       ELSE agent

ChainAgent(c, i) ==
  IF i = c.at /\ c.fault = "type"
    THEN Agent("custom_agent", "", ChainInputs(c, i), <<out_name>>, ChainCopy(i))
  ELSE IF i = c.at /\ c.fault = "tool"
    THEN Agent("tool_agent", "NoSuchTool", ChainInputs(c, i), <<out_name>>,
               ChainCopy(i))
  ELSE IF i = c.at /\ c.fault = "override"
    THEN Agent("tool_agent", "ConditionalRouterTool", ChainInputs(c, i), <<>>,
               ToolConfig(NoLoopConfig, PyStr(ghost), <<>>))
  ELSE IF i % 2 = 0
    THEN LLMAgent(c, i)
  ELSE IF i = 1
    THEN Agent("tool_agent", "DataAggregatorTool", ChainInputs(c, i), <<out_name>>,
               ChainCopy(i))
  ELSE Agent("DataAggregatorTool", "", ChainInputs(c, i), <<out_name>>, ChainCopy(i))

ChainNext(c, i) ==
  IF i = c.at /\ c.fault = "next" THEN PyStr(ghost)
  ELSE IF i < c.k THEN PyStr(StepId(i + 1))
  ELSE PyNone

\* final_outputs: {"<label>": "<source path>"}
ChainFinalOutputs(c) ==
  <<In(<<"last">>, Join(StepId(c.k), out_name)),
    In(<<"first">>, Join(parse, out_name)),
    In(<<"topic">>, InitialInputKey),
    In(<<"missing">>, Join(ghost, out_name)),
    In(<<"hint">>, InitialInputPrefix \o <<"hint">>)>>

ChainPipeline(c) ==
  [knobs |-> c,
   initial_input |-> PyStr(<<"seed">>),
   start_agent |-> IF c.fault = "start" THEN PyStr(ghost) ELSE PyStr(parse),
   agents |-> [a \in {StepId(i) : i \in 1..c.k} |->
                 ChainAgent(c, CHOOSE i \in 1..c.k : StepId(i) = a)],
   routing |-> [a \in {StepId(i) : i \in 1..c.k} |->
                  ChainNext(c, CHOOSE i \in 1..c.k : StepId(i) = a)],
   final_outputs |-> ChainFinalOutputs(c)]

\* Pipelines that start at a router in plain conditional mode: the router
\* reads the string subject "s" from the initial input and the subject "x"
\* as a literal of its inputs block; the agents it can route to end the run.
first_then == <<"t1">>
second_then == <<"t2">>
else_target == <<"e">>
static_next == <<"d">>

Condition(variable, operator, value) ==
  [variable |-> PyStr(variable), operator |-> operator, value |-> value]

Conditions ==
  {Condition(<<"s">>, "equals", PyStr(<<"a">>)),
   Condition(<<"s">>, "contains", PyStr(<<"a">>)),
   Condition(<<"s">>, "contains", PyInt(2)),
   Condition(<<"s">>, "not_contains", PyStr(<<"a">>)),
   Condition(<<"x">>, "gt", PyInt(1)),
   Condition(<<"x">>, "lt", PyStr(<<"a">>)),
   Condition(<<"x">>, "contains", PyInt(2)),
   Condition(<<"x">>, "not_contains", PyList(<<>>)),
   Condition(<<"x">>, "not_equals", PyInt(2))}

Subjects ==
  {PyInt(2), PyList(<<PyInt(2)>>), PyDict([key \in {<<"a">>} |-> PyInt(1)])}

\* One or two conditions in list order, or none.
ConditionLists ==
  {<<>>} \cup {<<c>> : c \in Conditions}
         \cup {<<c, d>> : c \in Conditions, d \in Conditions}

CondKnobs ==
  [conditions : ConditionLists, s : {<<"a">>, <<"b">>}, x : Subjects,
   else : BOOLEAN]

\* {"if": {variable, operator, value}, "then_execute_step": ...}: the n-th
\* group routes to t1 (n = 1) or t2.
ConditionGroups(conditions) ==
  [n \in 1..Len(conditions) |->
     [variable |-> conditions[n].variable,
      operator |-> conditions[n].operator,
      value |-> conditions[n].value,
      then_execute_step |->
        IF n = 1 THEN PyStr(first_then) ELSE PyStr(second_then)]]

CondConfig(k) ==
  [loop_config |-> NoLoopConfig,
   else_execute_step |-> IF k.else THEN PyStr(else_target) ELSE PyNone,
   sources |-> <<>>,
   condition_groups |-> ConditionGroups(k.conditions)]

CondAgent(k, a) ==
  IF a = router
    THEN Agent("tool_agent", "ConditionalRouterTool",
               <<In(<<"s">>, PyStr(InitialInputKey)), In(<<"x">>, k.x)>>,
               <<>>, CondConfig(k))
    ELSE Agent("tool_agent", "DataAggregatorTool",
               <<In(<<"n">>, PyInt(0))>>, <<<<"seen">>>>,
               ToolConfig(NoLoopConfig, PyNone,
                          <<[new |-> <<"seen">>, src |-> <<"n">>]>>))

CondAgentIds == {router, first_then, second_then, else_target, static_next}

CondPipeline(k) ==
  [knobs |-> k,
   initial_input |-> PyStr(k.s),
   start_agent |-> PyStr(router),
   agents |-> [a \in CondAgentIds |-> CondAgent(k, a)],
   routing |-> [a \in CondAgentIds |->
                  IF a = router THEN PyStr(static_next) ELSE PyNone]]

\* Pipelines that start at a router whose tool config has condition groups
\* and, besides them, no loop_config, an empty one, or one that loops `n`
\* times over the agent t2 with the accumulator all_items fed by "s".
ModeKnobs ==
  {k \in [conditions : {c \in ConditionLists : Len(c) <= 1},
          s : {<<"a">>, <<"b">>}, else : BOOLEAN,
          loop : {"absent", "empty", "filled"}, n : 0..1] :
     k.loop # "filled" => k.n = 0}

ModeLoopConfig(k) ==
  CASE k.loop = "absent" -> NoLoopConfig
    [] k.loop = "empty" -> EmptyLoopConfig
    [] k.loop = "filled" ->
         [present |-> TRUE,
          total_iterations_from |-> PyInt(k.n),
          loop_body_start_id |-> PyStr(second_then),
          counter_name |-> PyStr(counter),
          accumulators |-> <<[out |-> all_items, in |-> <<"s">>]>>,
          loop_body_agents |-> <<second_then>>]

ModePipeline(k) ==
  LET base == CondPipeline([conditions |-> k.conditions, s |-> k.s,
                            x |-> PyInt(2), else |-> k.else])
  IN [base EXCEPT
        !.knobs = k,
        !.agents[router].tool_config.loop_config = ModeLoopConfig(k),
        !.routing[second_then] = PyStr(router)]

\* ---------------------------------------------------------- path resolver
\* Orchestrator._get_value_from_path: descend `keys` into nested dicts; None
\* when a segment is absent or the current value is not a dict.
RECURSIVE Descend(_, _)
Descend(value, keys) ==
  IF keys = <<>> THEN value
  ELSE IF value.t = "dict" /\ Head(keys) \in DOMAIN value.d
         THEN Descend(value.d[Head(keys)], Tail(keys))
         ELSE PyNone

GetValueFromPath(data, path) == Descend(data, Split(path))

\* Mutant: every source path is a flat key of the State Store.
Lookup_Flat(state, source_path) == Get(state, source_path, PyNone)

\* The lookup of one source path (orchestrator.py lines 93-105).
Lookup(state, source_path) ==
  IF StartsWith(source_path, InitialInputPrefix)
    THEN GetValueFromPath(Get(state, InitialInputKey, PyDict(EmptyDict)),
                          JoinAll(SubSeq(Split(source_path), 3,
                                         Len(Split(source_path)))))
    ELSE Get(state, source_path, PyNone)

\* Mutant: "if not value", so an empty string or 0 counts as missing too.
IsMissing_Falsy(value) == ~Truthy(value)

\* Mutant: nothing counts as missing, None is handed on.
IsMissing_Never(value) == FALSE

\* "if value is None": the resolver's test for a missing input.
IsMissing(value) == value.t = "none"

NoError == ""

\* Orchestrator._resolve_inputs, from the n-th input on. acc carries the
\* state (the interactive posture writes the operator's answer back into it),
\* the inputs resolved so far and the source paths prompted for; answers[n]
\* is what input() returns if the n-th input prompts.
RECURSIVE ResolveFrom(_, _, _, _, _)
ResolveFrom(n, inputs_config, acc, mode, answers) ==
  IF n > Len(inputs_config) THEN acc
  ELSE
    LET local_name == inputs_config[n].name
        src == inputs_config[n].src
    IN IF src.t # "str"
         THEN ResolveFrom(n + 1, inputs_config,
                          [acc EXCEPT !.inputs = Put(@, local_name, src)],
                          mode, answers)
         ELSE
           LET value == Lookup(acc.state, src.s)
           IN IF ~IsMissing(value)
                THEN ResolveFrom(n + 1, inputs_config,
                                 [acc EXCEPT !.inputs = Put(@, local_name, value)],
                                 mode, answers)
                ELSE IF mode
                  THEN [acc EXCEPT !.err = "MissingInput"]
                  ELSE ResolveFrom(n + 1, inputs_config,
                                   [acc EXCEPT
                                      !.state = Put(@, src.s, answers[n]),
                                      !.inputs = Put(@, local_name, answers[n]),
                                      !.prompted = Append(@, src.s)],
                                   mode, answers)

ResolveInputs(inputs_config, state, mode, answers) ==
  ResolveFrom(1, inputs_config,
              [err |-> NoError, state |-> state, inputs |-> EmptyDict,
               prompted |-> <<>>],
              mode, answers)

\* ------------------------------------------------------------------- tools
Ok(out) == [err |-> NoError, out |-> out]

Raise(e) == [err |-> e, out |-> EmptyDict]

\* DataAggregatorTool.execute
RECURSIVE AggregateFrom(_, _, _, _)
AggregateFrom(n, sources, inputs, aggregated_data) ==
  IF n > Len(sources) THEN aggregated_data
  ELSE AggregateFrom(n + 1, sources, inputs,
         Put(aggregated_data, sources[n].new,
             IF sources[n].src \in DOMAIN inputs
               THEN inputs[sources[n].src]
               ELSE PyStr(<<"Source key not found in inputs">>)))

DataAggregatorExecute(inputs, config) ==
  Ok(AggregateFrom(1, config.sources, inputs, EmptyDict))

\* f"{agent_id}.{name}" if agent_id and name else name
Namespaced(agent_id, name) ==
  IF Truthy(agent_id) /\ Truthy(name) THEN PyStr(Join(agent_id.s, name.s))
  ELSE name

\* Mutant: an empty string is accumulated too.
Meaningful_NoneOnly(value) == value.t # "none"

\* "value_to_accumulate is not None and value_to_accumulate != ''"
Meaningful(value) == value.t # "none" /\ value # PyStr(<<>>)

\* The data aggregation phase of the router (built_in_tools.py lines 247-266),
\* from the n-th accumulator on: updated_state gets, under the un-namespaced
\* output key, the accumulator's list in state plus this call's input value.
RECURSIVE AccumulateFrom(_, _, _, _, _, _)
AccumulateFrom(n, accumulators, inputs, pipeline_state, agent_id, updated_state) ==
  IF n > Len(accumulators) THEN updated_state
  ELSE
    LET output_key == accumulators[n].out
        input_source_key == accumulators[n].in
        stored == Get(pipeline_state,
                      Namespaced(agent_id, PyStr(output_key)).s, PyList(<<>>))
        current_list == IF stored.t = "list" THEN stored.l ELSE <<>>
    IN AccumulateFrom(n + 1, accumulators, inputs, pipeline_state, agent_id,
         IF input_source_key \in DOMAIN inputs
              /\ Meaningful(inputs[input_source_key])
           THEN Put(updated_state, output_key,
                    PyList(Append(current_list, inputs[input_source_key])))
           ELSE updated_state)

\* Mutant: the loop runs once more (<= for <).
LoopContinues_OffByOne(current_count, total_iterations) ==
  current_count <= total_iterations

\* The loop control decision: "if current_count < total_iterations".
LoopContinues(current_count, total_iterations) ==
  current_count < total_iterations

\* Mutant: the termination output carries the lists as they are in the state,
\* without what this call accumulated (the decision taken before accumulating).
RECURSIVE FinalFrom_StateOnly(_, _, _, _, _, _)
FinalFrom_StateOnly(n, accumulators, updated_state, pipeline_state, agent_id, final_output) ==
  IF n > Len(accumulators) THEN final_output
  ELSE FinalFrom_StateOnly(n + 1, accumulators, updated_state, pipeline_state,
         agent_id,
         Put(final_output, accumulators[n].out,
             Get(pipeline_state,
                 Namespaced(agent_id, PyStr(accumulators[n].out)).s,
                 PyList(<<>>))))

\* Mutant: the termination output carries a state patch in place of the
\* accumulators' lists.
FinalFrom_Patched(n, accumulators, updated_state, pipeline_state, agent_id, final_output) ==
  Put(final_output, UpdateStateKey, PyDict(updated_state))

\* Mutant: the termination output carries a state patch that sets the
\* counter back to 0.
FinalFrom_Reset(n, accumulators, updated_state, pipeline_state, agent_id, final_output) ==
  Put(final_output, UpdateStateKey, PyDict(Put(EmptyDict, counter, PyInt(0))))

\* The termination output (built_in_tools.py lines 286-300).
RECURSIVE FinalFrom(_, _, _, _, _, _)
FinalFrom(n, accumulators, updated_state, pipeline_state, agent_id, final_output) ==
  IF n > Len(accumulators) THEN final_output
  ELSE
    LET acc_output_key == accumulators[n].out
    IN FinalFrom(n + 1, accumulators, updated_state, pipeline_state, agent_id,
         Put(final_output, acc_output_key,
             IF acc_output_key \in DOMAIN updated_state
               THEN updated_state[acc_output_key]
               ELSE Get(pipeline_state,
                        Namespaced(agent_id, PyStr(acc_output_key)).s,
                        PyList(<<>>))))

\* The total number of iterations (built_in_tools.py lines 225-240): [err, n].
TotalIterations(loop_config, inputs) ==
  LET v == loop_config.total_iterations_from
  IN CASE v.t = "int" -> [err |-> NoError, n |-> v.i]
       [] v.t = "str" ->
            IF v.s = <<>> THEN [err |-> "ValueError", n |-> 0]
            ELSE IF Get(inputs, v.s, PyNone).t = "none"
              THEN [err |-> "ValueError", n |-> 0]
            ELSE IF Get(inputs, v.s, PyNone).t \in {"list", "dict"}
              THEN [err |-> "TypeError", n |-> 0]
            ELSE IF ParseInt(inputs[v.s]).ok
              THEN [err |-> NoError, n |-> ParseInt(inputs[v.s]).n]
            ELSE [err |-> "ValueError", n |-> 0]
       [] OTHER -> [err |-> "ValueError", n |-> 0]

\* "value in actual_value" for a str, list or dict subject: [err, holds].
\* A str subject takes only a str on the left, a dict subject only a
\* hashable key; Python raises TypeError otherwise.
Contains(actual_value, value) ==
  CASE actual_value.t = "str" ->
         IF value.t # "str" THEN [err |-> "TypeError", holds |-> FALSE]
         ELSE [err |-> NoError,
               holds |-> \E n \in 0..Len(actual_value.s) :
                           /\ n + Len(value.s) <= Len(actual_value.s)
                           /\ SubSeq(actual_value.s, n + 1, n + Len(value.s))
                                = value.s]
    [] actual_value.t = "list" ->
         [err |-> NoError,
          holds |-> \E n \in 1..Len(actual_value.l) : actual_value.l[n] = value]
    [] actual_value.t = "dict" ->
         IF value.t \in {"list", "dict"}
           THEN [err |-> "TypeError", holds |-> FALSE]
           ELSE [err |-> NoError,
                 holds |-> value.t = "str" /\ value.s \in DOMAIN actual_value.d]

\* "actual_value > value" / "actual_value < value" for an int subject:
\* Python orders an int only against a number.
Compare(operator, actual_value, value) ==
  IF value.t # "int" THEN [err |-> "TypeError", holds |-> FALSE]
  ELSE [err |-> NoError,
        holds |-> IF operator = "gt" THEN actual_value.i > value.i
                  ELSE actual_value.i < value.i]

\* The operator chain of one condition group (built_in_tools.py lines
\* 316-323): [err, holds].
EvalCondition(operator, actual_value, value) ==
  CASE operator = "equals" -> [err |-> NoError, holds |-> actual_value = value]
    [] operator = "not_equals" ->
         [err |-> NoError, holds |-> actual_value # value]
    [] operator = "contains" ->
         IF actual_value.t \in {"str", "list", "dict"}
           THEN Contains(actual_value, value)
           ELSE [err |-> NoError, holds |-> FALSE]
    [] operator = "not_contains" ->
         IF actual_value.t \in {"str", "list", "dict"}
           THEN [err |-> Contains(actual_value, value).err,
                 holds |-> /\ Contains(actual_value, value).err = NoError
                           /\ ~Contains(actual_value, value).holds]
           ELSE [err |-> NoError, holds |-> FALSE]
    [] operator \in {"gt", "lt"} ->
         IF actual_value.t = "int"
           THEN Compare(operator, actual_value, value)
           ELSE [err |-> NoError, holds |-> FALSE]
    [] OTHER -> [err |-> NoError, holds |-> FALSE]

\* Standard conditional routing (built_in_tools.py lines 303-331), from the
\* n-th condition group on.
RECURSIVE ConditionalFrom(_, _, _, _)
ConditionalFrom(n, condition_groups, else_step, inputs) ==
  IF n > Len(condition_groups)
    THEN IF Truthy(else_step) THEN Ok(Put(EmptyDict, NextStepKey, else_step))
         ELSE Ok(EmptyDict)
  ELSE
    LET group == condition_groups[n]
        then_step == group.then_execute_step
        variable == group.variable
        operator == group.operator
        actual_value == IF variable.t = "str"
                          THEN Get(inputs, variable.s, PyNone) ELSE PyNone
        r == EvalCondition(operator, actual_value, group.value)
    IN IF ~(Truthy(variable) /\ operator # "" /\ Truthy(then_step))
         THEN ConditionalFrom(n + 1, condition_groups, else_step, inputs)
       ELSE IF r.err # NoError THEN Raise(r.err)
       ELSE IF r.holds THEN Ok(Put(EmptyDict, NextStepKey, then_step))
       ELSE ConditionalFrom(n + 1, condition_groups, else_step, inputs)

\* "if loop_config:" -- config.get("loop_config") is there and, a dict
\* being true when it has an entry, is not empty.
LoopMode(loop_config) ==
  loop_config.present /\ loop_config # EmptyLoopConfig

\* ConditionalRouterTool.execute
RouterExecute(inputs, config, pipeline_state, agent_id) ==
  LET loop_config == config.loop_config
  IN IF LoopMode(loop_config)
       THEN
         LET counter_name == loop_config.counter_name
             namespaced_counter_key == Namespaced(agent_id, counter_name)
             current_count == Get(pipeline_state, namespaced_counter_key.s, PyInt(0))
             total == TotalIterations(loop_config, inputs)
             updated_state ==
               AccumulateFrom(1, loop_config.accumulators, inputs,
                              pipeline_state, agent_id, EmptyDict)
         IN IF ~Truthy(namespaced_counter_key) THEN Raise("ValueError")
            ELSE IF total.err # NoError THEN Raise(total.err)
            ELSE IF current_count.t # "int" THEN Raise("TypeError")
            ELSE IF LoopContinues(current_count.i, total.n)
              THEN Ok(Put(Put(Put(EmptyDict,
                        NextStepKey, loop_config.loop_body_start_id),
                        UpdateStateKey,
                          PyDict(IF Truthy(counter_name)
                                   THEN Put(updated_state, counter_name.s,
                                            PyInt(current_count.i + 1))
                                   ELSE updated_state)),
                        ClearKey,
                          PyList([n \in 1..Len(loop_config.loop_body_agents) |->
                                    PyStr(loop_config.loop_body_agents[n])])))
              ELSE Ok(FinalFrom(1, loop_config.accumulators, updated_state,
                                pipeline_state, agent_id,
                                Put(EmptyDict, NextStepKey,
                                    config.else_execute_step)))
       ELSE ConditionalFrom(1,
                            IF "condition_groups" \in DOMAIN config
                              THEN config.condition_groups ELSE <<>>,
                            config.else_execute_step, inputs)

\* --------------------------------------------- StructuredDataParserTool
\* A model response as JSON text, one token per lexeme: braces, brackets,
\* ':' and ',', string literals, the number 1, null, and a word that is not
\* JSON.
LBrace == "{"
RBrace == "}"
Colon == ":"
Comma == ","

JsonStrings == {"\"name\"", "\"email\"", "\"John\""}

JsonScalars == JsonStrings \cup {"1", "null"}

\* The Python value of a scalar lexeme.
Decode(lexeme) ==
  CASE lexeme = "\"name\"" -> PyStr(<<"name">>)
    [] lexeme = "\"email\"" -> PyStr(<<"email">>)
    [] lexeme = "\"John\"" -> PyStr(<<"John">>)
    [] lexeme = "1" -> PyInt(1)
    [] OTHER -> PyNone

\* The members of a JSON object, "key": scalar separated by ',': [ok, d];
\* a later member replaces an earlier one of the same key.
RECURSIVE ParseMembers(_)
ParseMembers(tokens) ==
  IF Len(tokens) < 3 \/ tokens[1] \notin JsonStrings \/ tokens[2] # Colon
       \/ tokens[3] \notin JsonScalars
    THEN [ok |-> FALSE, d |-> EmptyDict]
  ELSE IF Len(tokens) = 3
    THEN [ok |-> TRUE,
          d |-> Put(EmptyDict, Decode(tokens[1]).s, Decode(tokens[3]))]
  ELSE IF tokens[4] # Comma THEN [ok |-> FALSE, d |-> EmptyDict]
  ELSE LET rest == ParseMembers(SubSeq(tokens, 5, Len(tokens)))
           key == Decode(tokens[1]).s
       IN [ok |-> rest.ok,
           d |-> IF key \in DOMAIN rest.d THEN rest.d
                 ELSE Put(rest.d, key, Decode(tokens[3]))]

\* json.loads: [ok, value]; ok = FALSE is json.JSONDecodeError.
JsonLoads(tokens) ==
  IF Len(tokens) = 1 /\ tokens[1] \in JsonScalars
    THEN [ok |-> TRUE, value |-> Decode(tokens[1])]
  ELSE IF tokens = <<"[", "]">> THEN [ok |-> TRUE, value |-> PyList(<<>>)]
  ELSE IF tokens = <<LBrace, RBrace>>
    THEN [ok |-> TRUE, value |-> PyDict(EmptyDict)]
  ELSE IF Len(tokens) > 2 /\ tokens[1] = LBrace /\ tokens[Len(tokens)] = RBrace
    THEN LET members == ParseMembers(SubSeq(tokens, 2, Len(tokens) - 1))
         IN [ok |-> members.ok, value |-> PyDict(members.d)]
  ELSE [ok |-> FALSE, value |-> PyNone]

\* re.search(r'\{.*\}', response_str, re.DOTALL): from the first '{' to the
\* last '}' after it; the response itself when there is no such match.
JsonMatch(response_str) ==
  LET opens == {i \in 1..Len(response_str) : response_str[i] = LBrace}
      first == CHOOSE i \in opens : \A j \in opens : i <= j
      closes == {i \in 1..Len(response_str) :
                   response_str[i] = RBrace /\ i > first}
      last == CHOOSE i \in closes : \A j \in closes : j <= i
  IN IF opens = {} THEN response_str
     ELSE IF closes = {} THEN response_str
     ELSE SubSeq(response_str, first, last)

\* "field not in parsed_json" on what json.loads returned: [err, holds].
\* A number or null is not iterable (TypeError); a list holds no field here;
\* a str answers by substring, here by equality with its only token.
FieldMissing(parsed_json, field) ==
  CASE parsed_json.t = "dict" ->
         [err |-> NoError, holds |-> field \notin DOMAIN parsed_json.d]
    [] parsed_json.t = "list" ->
         [err |-> NoError,
          holds |-> \A n \in 1..Len(parsed_json.l) : parsed_json.l[n] # PyStr(field)]
    [] parsed_json.t = "str" ->
         [err |-> NoError, holds |-> parsed_json.s # field]
    [] OTHER -> [err |-> "TypeError", holds |-> FALSE]

\* Lines 92-96, from the n-th field on: a missing field is set to
\* "Not found"; item assignment on a list or a str is a TypeError.
RECURSIVE FillFrom(_, _, _)
FillFrom(n, output_fields, parsed_json) ==
  IF n > Len(output_fields) THEN [err |-> NoError, value |-> parsed_json]
  ELSE LET missing == FieldMissing(parsed_json, output_fields[n])
       IN IF missing.err # NoError THEN [err |-> missing.err, value |-> parsed_json]
          ELSE IF ~missing.holds THEN FillFrom(n + 1, output_fields, parsed_json)
          ELSE IF parsed_json.t # "dict"
            THEN [err |-> "TypeError", value |-> parsed_json]
          ELSE FillFrom(n + 1, output_fields,
                        PyDict(Put(parsed_json.d, output_fields[n],
                                   PyStr(<<"Not found">>))))

\* StructuredDataParserTool.execute (built_in_tools.py lines 49-101). A
\* result that is not a mapping (a JSON string that contains every field)
\* has no keys() for run() at line 214: AttributeError.
StructuredDataParserExecute(inputs, config, output_fields, response) ==
  LET request_text == Get(inputs, <<"natural_language_request">>, PyNone)
      parsed == JsonLoads(JsonMatch(response.s))
      filled == FillFrom(1, output_fields, parsed.value)
  IN IF ~Truthy(request_text) THEN Raise("ValueError")
     ELSE IF ~parsed.ok
       THEN Ok([field \in {output_fields[n] : n \in 1..Len(output_fields)} |->
                  PyStr(<<"Error: Failed to parse">>)])
     ELSE IF filled.err # NoError THEN Raise(filled.err)
     ELSE IF filled.value.t # "dict" THEN Raise("AttributeError")
     ELSE Ok(filled.value.d)

\* Orchestrator.tool_registry
ToolRegistry ==
  {"RegexParserTool", "StructuredDataParserTool", "CodeExecutionTool",
   "ConditionalRouterTool", "DataAggregatorTool"}

\* ------------------------------------------------------------- environment
\* What invoke_llm returns (a stripped string, possibly empty) and what the
\* operator types at an input() prompt.
LLMResponses == {PyStr(<<"a">>), PyStr(<<"b">>), PyStr(<<>>)}

\* invoke_llm (ollama_client.py): the stripped content of the chat response,
\* or the sentinel string when ollama.chat raised anything at all.
LLMError == PyStr(<<"Error: Could not get response from LLM.">>)

InvokeLLM(chat) == IF chat.raised THEN LLMError ELSE chat.content

\* The outcomes of ollama.chat for the linear pipelines: the contents above,
\* a bulleted two-line content, or an exception.
Newline == "\n"
Bullet == "-"

ChainChats ==
  {[raised |-> FALSE, content |-> r] :
     r \in LLMResponses \cup {PyStr(<<"a", Newline, Bullet, "b">>)}}
    \cup {[raised |-> TRUE, content |-> PyNone]}

ChainResponses == {InvokeLLM(chat) : chat \in ChainChats}

\* Orchestrator._parse_llm_list_output: split at a newline together with the
\* bullet or the "<digit>." that follows it, strip, drop the empty items.
Digits == {"0", "1", "2", "3"}

SeparatorAt(content, i) ==
  IF content[i] # Newline THEN 0
  ELSE IF i + 1 <= Len(content) /\ content[i + 1] = Bullet THEN 2
  ELSE IF i + 2 <= Len(content) /\ content[i + 1] \in Digits /\ content[i + 2] = Dot
    THEN 3
  ELSE 1

RECURSIVE SplitItems(_, _, _)
SplitItems(content, i, item) ==
  IF i > Len(content) THEN <<item>>
  ELSE IF SeparatorAt(content, i) > 0
    THEN <<item>> \o SplitItems(content, i + SeparatorAt(content, i), <<>>)
  ELSE SplitItems(content, i + 1, Append(item, content[i]))

ParseLLMListOutput(content) ==
  LET items == SelectSeq(SplitItems(content, 1, <<>>), LAMBDA item : item # <<>>)
  IN PyList([j \in 1..Len(items) |-> PyStr(items[j])])

\* Mutant: the output format is ignored, the response is stored as it is.
LLMOutput_Raw(agent_config, response) == response

\* Lines 182-187 of run(): the value stored under the agent's first output.
LLMOutput(agent_config, response) ==
  IF "output_format" \in DOMAIN agent_config /\ agent_config.output_format = "list"
    THEN ParseLLMListOutput(response.s)
    ELSE response

UserAnswers == {PyStr(<<>>), PyStr(<<"u">>)}

\* -------------------------------------------------------------------- state
VARIABLES
  cfg,               \* the pipeline definition (Orchestrator.config)
  test_mode,         \* Orchestrator.test_mode: TRUE = strict posture
  pipeline_state,    \* the State Store of run()
  current_agent_id,  \* run()'s loop variable
  status,            \* "running", "finished" (run returned) or "error" (raised)
  trace,             \* history: one record per iteration of run()'s loop
  cli                \* main(): where it is, what it was answered, its exit;
                     \* display_pipeline_flow(): its locals and printed lines

vars == <<cfg, test_mode, pipeline_state, current_agent_id, status, trace, cli>>

\* The Orchestrator constructed and run directly, as the tests do: no CLI.
Library ==
  [pc |-> "run", config_path |-> "", file |-> "object", answer |-> <<>>,
   exit_code |-> PyNone, created |-> TRUE]

\* --------------------------------------------------------- agent dispatcher
\* The tool an agent names: its tool_name, or its type when the type is
\* itself a registered tool (orchestrator.py lines 175-186).
ToolName(agent_config) ==
  IF agent_config.type = "tool_agent"
    THEN agent_config.tool_name ELSE agent_config.type

\* What run() keeps of a tool's execute(): its outputs, or its exception
\* (orchestrator.py lines 199-205).
Executed(r) == [err |-> r.err, invoked |-> TRUE, out |-> r.out]

\* Mutant: no check of the agent type or of the tool name; an agent that is
\* neither a model agent nor a known tool produces no outputs.
Dispatch_Unchecked(agent_config, agent_id, resolved_inputs, state, response) ==
  IF agent_config.type = "llm_agent"
    THEN [err |-> NoError, invoked |-> TRUE,
          out |-> Put(EmptyDict, agent_config.outputs[1],
                      LLMOutput(agent_config, response))]
    ELSE Executed(
           CASE ToolName(agent_config) = "ConditionalRouterTool" ->
                  RouterExecute(resolved_inputs, agent_config.tool_config,
                                state, agent_id)
             [] ToolName(agent_config) = "DataAggregatorTool" ->
                  DataAggregatorExecute(resolved_inputs, agent_config.tool_config)
             [] ToolName(agent_config) = "StructuredDataParserTool" ->
                  StructuredDataParserExecute(resolved_inputs,
                                              agent_config.tool_config,
                                              agent_config.outputs, response)
             [] OTHER -> Ok(EmptyDict))

\* The agent execution logic of run() (orchestrator.py lines 167-212).
\* [err, out, invoked]: invoked tells whether the model or a tool was called.
Dispatch(agent_config, agent_id, resolved_inputs, state, response) ==
  IF agent_config.type = "llm_agent"
    THEN [err |-> NoError, invoked |-> TRUE,
          out |-> Put(EmptyDict, agent_config.outputs[1],
                      LLMOutput(agent_config, response))]
  ELSE IF agent_config.type = "tool_agent" \/ agent_config.type \in ToolRegistry
    THEN
      IF ToolName(agent_config) \notin ToolRegistry
        THEN [err |-> "UnknownTool", invoked |-> FALSE, out |-> EmptyDict]
        ELSE Executed(
               CASE ToolName(agent_config) = "ConditionalRouterTool" ->
                      RouterExecute(resolved_inputs, agent_config.tool_config,
                                    state, agent_id)
                 [] ToolName(agent_config) = "DataAggregatorTool" ->
                      DataAggregatorExecute(resolved_inputs,
                                            agent_config.tool_config)
                 [] ToolName(agent_config) = "StructuredDataParserTool" ->
                      StructuredDataParserExecute(resolved_inputs,
                                                  agent_config.tool_config,
                                                  agent_config.outputs,
                                                  response)
                 [] OTHER -> Raise("ToolNotModelled"))
  ELSE [err |-> "UnsupportedAgentType", invoked |-> FALSE, out |-> EmptyDict]

\* ----------------------------------------------------------- pipeline runner
\* The keys of an output map that run() does not store as ordinary outputs
\* (orchestrator.py line 219).
ExcludedKeys == {NextStepKey, UpdateStateKey}

\* orchestrator.py lines 217-221: pipeline_state[f"{agent}.{key}"] = value
MergeOutputs(state, agent, outputs) ==
  LET stored == {key \in DOMAIN outputs : key \notin ExcludedKeys}
  IN [x \in (DOMAIN state) \cup {Join(agent, key) : key \in stored} |->
        IF \E key \in stored : x = Join(agent, key)
          THEN outputs[CHOOSE key \in stored : x = Join(agent, key)]
          ELSE state[x]]

\* Mutant: a state-patch key is written as it is, without the agent's prefix.
PatchTarget_Bare(agent, state_key) == state_key

\* Mutant: every state-patch key gets the agent's prefix, dotted or not.
PatchTarget_Prefixed(agent, state_key) == Join(agent, state_key)

\* The State Store key a state-patch entry is written to (lines 230-234).
PatchTarget(agent, state_key) ==
  IF ~HasDot(state_key) THEN Join(agent, state_key) ELSE state_key

\* orchestrator.py lines 224-234
ApplyUpdateState(state, agent, outputs) ==
  IF UpdateStateKey \in DOMAIN outputs /\ outputs[UpdateStateKey].t = "dict"
    THEN LET patch == outputs[UpdateStateKey].d
         IN [x \in (DOMAIN state)
                     \cup {PatchTarget(agent, key) : key \in DOMAIN patch} |->
               IF \E key \in DOMAIN patch : x = PatchTarget(agent, key)
                 THEN patch[CHOOSE key \in DOMAIN patch :
                                     x = PatchTarget(agent, key)]
                 ELSE state[x]]
    ELSE state

\* The agent ids of a clear-outputs directive (lines 239-241).
AgentIdsToClear(outputs) ==
  IF ClearKey \in DOMAIN outputs /\ outputs[ClearKey].t = "list"
    THEN {outputs[ClearKey].l[n].s : n \in 1..Len(outputs[ClearKey].l)}
    ELSE {}

\* Mutant: only the first agent of the list is cleared.
ClearAgentOutputs_FirstOnly(state, outputs) ==
  Remove(state, {state_key \in DOMAIN state :
                   /\ AgentIdsToClear(outputs) # {}
                   /\ StartsWith(state_key, outputs[ClearKey].l[1].s \o <<Dot>>)})

\* Mutant: the prefix compared is the agent id without the '.' after it.
ClearAgentOutputs_NoDot(state, outputs) ==
  Remove(state, {state_key \in DOMAIN state :
                   \E agent_id \in AgentIdsToClear(outputs) :
                     StartsWith(state_key, agent_id)})

\* orchestrator.py lines 239-252
ClearAgentOutputs(state, outputs) ==
  Remove(state, {state_key \in DOMAIN state :
                   \E agent_id \in AgentIdsToClear(outputs) :
                     StartsWith(state_key, agent_id \o <<Dot>>)})

\* Mutant: only a next-step override is followed, the RoutingTable is not.
NextAgent_OverrideOnly(config, agent, outputs) ==
  Get(outputs, NextStepKey, PyNone)

\* Mutant: the RoutingTable entry is taken when there is one.
NextAgent_RoutingFirst(config, agent, outputs) ==
  IF Truthy(Get(config.routing, agent, PyNone))
    THEN config.routing[agent]
    ELSE Get(outputs, NextStepKey, PyNone)

\* Mutant: an override that is present is followed, null or empty too.
NextAgent_NullEnds(config, agent, outputs) ==
  IF NextStepKey \in DOMAIN outputs
    THEN outputs[NextStepKey]
    ELSE Get(config.routing, agent, PyNone)

\* orchestrator.py lines 257-261
NextAgent(config, agent, outputs) ==
  IF NextStepKey \in DOMAIN outputs /\ Truthy(outputs[NextStepKey])
    THEN outputs[NextStepKey]
    ELSE Get(config.routing, agent, PyNone)

\* Mutant: the clear-outputs directive is applied first, the outputs and the
\* state patch are written after it.
ProcessOutputs_ClearFirst(config, cur, res, disp) ==
  IF disp.err # NoError
    THEN [err |-> disp.err, state |-> res.state, next |-> cur,
          inputs |-> res.inputs, out |-> EmptyDict,
          prompted |-> res.prompted, invoked |-> disp.invoked]
    ELSE [err |-> NoError,
          state |-> ApplyUpdateState(
                      MergeOutputs(ClearAgentOutputs(res.state, disp.out),
                                   cur.s, disp.out),
                      cur.s, disp.out),
          next |-> NextAgent(config, cur.s, disp.out),
          inputs |-> res.inputs, out |-> disp.out,
          prompted |-> res.prompted, invoked |-> TRUE]

\* The rest of an iteration once the agent's outputs are there: merge,
\* state patch, clearing, next agent (orchestrator.py lines 214-261); the
\* iteration ends with the agent's exception when it raised one.
ProcessOutputs(config, cur, res, disp) ==
  IF disp.err # NoError
    THEN [err |-> disp.err, state |-> res.state, next |-> cur,
          inputs |-> res.inputs, out |-> EmptyDict,
          prompted |-> res.prompted, invoked |-> disp.invoked]
    ELSE [err |-> NoError,
          state |-> ClearAgentOutputs(
                      ApplyUpdateState(
                        MergeOutputs(res.state, cur.s, disp.out),
                        cur.s, disp.out),
                      disp.out),
          next |-> NextAgent(config, cur.s, disp.out),
          inputs |-> res.inputs, out |-> disp.out,
          prompted |-> res.prompted, invoked |-> TRUE]

\* An iteration from the resolved inputs `res` on (orchestrator.py lines
\* 164-212): the agent is executed unless the resolution raised.
ExecuteAgent(config, cur, response, res) ==
  IF res.err # NoError
    THEN [err |-> res.err, state |-> res.state, next |-> cur,
          inputs |-> res.inputs, out |-> EmptyDict,
          prompted |-> res.prompted, invoked |-> FALSE]
    ELSE ProcessOutputs(config, cur, res,
                        Dispatch(config.agents[cur.s], cur, res.inputs,
                                 res.state, response))

\* One iteration of run()'s while loop for agent `cur` (lines 155-261).
RunStep(config, mode, state, cur, answers, response) ==
  IF cur.s \notin DOMAIN config.agents
    THEN [err |-> "UnknownAgent", state |-> state, next |-> cur,
          inputs |-> EmptyDict, out |-> EmptyDict, prompted |-> <<>>,
          invoked |-> FALSE]
    ELSE ExecuteAgent(config, cur, response,
                      ResolveInputs(config.agents[cur.s].inputs, state, mode,
                                    answers))

InputCount(config, cur) ==
  IF cur.s \in DOMAIN config.agents THEN Len(config.agents[cur.s].inputs) ELSE 0

\* run() up to its loop (lines 146-151), for a pipeline definition taken
\* from `configs`.
RunInit(configs) ==
  /\ cfg \in configs
  /\ test_mode \in BOOLEAN
  /\ pipeline_state =
       [x \in {InitialInputKey} |->
          IF cfg.initial_input = PyStr(<<>>) THEN PyNone ELSE cfg.initial_input]
  /\ current_agent_id = cfg.start_agent
  /\ status = IF Truthy(cfg.start_agent) THEN "running" ELSE "finished"
  /\ trace = <<>>
  /\ cli = Library

Init == RunInit({Pipeline(k) : k \in Knobs})

\* The message of a loop configuration ValueError of the router
\* (built_in_tools.py lines 219-240).
LoopErrorMessage(agent_config, cur, inputs) ==
  LET loop_config == agent_config.tool_config.loop_config
      v == loop_config.total_iterations_from
  IN IF ~Truthy(Namespaced(cur, loop_config.counter_name))
       THEN <<"ConditionalRouterTool (">> \o cur.s
              \o <<"): 'counter_name' must be defined in loop_config.">>
     ELSE IF v.t = "str" /\ v.s = <<>>
       THEN <<"ConditionalRouterTool (">> \o cur.s
              \o <<"): 'total_iterations_from' key name cannot be empty if it's a string.">>
     ELSE IF v.t = "str" /\ Get(inputs, v.s, PyNone).t = "none"
       THEN <<"Looping error for agent '">> \o cur.s
              \o <<"': Total iterations key '">> \o v.s
              \o <<"' not found in inputs.">>
     ELSE IF v.t = "str"
       THEN <<"Looping error for agent '">> \o cur.s \o <<"': Input '">> \o v.s
              \o <<"' must be an integer.">>
     ELSE <<"Looping error for agent '">> \o cur.s
            \o <<"': 'total_iterations_from' in loop_config must be an integer or a string key name.">>

\* The text of the exception run() ends with, as tokens: the KeyError of
\* line 156 carries the id looked up, the ValueErrors of lines 109, 196 and
\* 212 their f-strings, a TypeError the interpreter's own text.
ErrorMessage(config, cur, r) ==
  CASE r.err = NoError -> <<>>
    [] r.err = "UnknownAgent" -> cur.s
    [] r.err = "MissingInput" ->
         LET inputs_config == config.agents[cur.s].inputs
             n == CHOOSE j \in 1..Len(inputs_config) :
                    /\ inputs_config[j].name \notin DOMAIN r.inputs
                    /\ \A q \in 1..(j - 1) :
                         inputs_config[q].name \in DOMAIN r.inputs
         IN <<"Input '">> \o inputs_config[n].name \o <<"' (from '">>
              \o inputs_config[n].src.s
              \o <<"') not found in state and test_mode is active.">>
    [] r.err = "UnknownTool" ->
         <<"Unknown tool '", config.agents[cur.s].tool_name,
           "'. Available tools: ">>
    [] r.err = "UnsupportedAgentType" ->
         <<"Unsupported agent type: '", config.agents[cur.s].type, "'">>
    [] r.err = "ValueError" ->
         LoopErrorMessage(config.agents[cur.s], cur, r.inputs)
    [] OTHER -> <<"TypeError">>

\* The agent's step calls invoke_llm: a model agent (line 167 of run()) or
\* the StructuredDataParserTool (built_in_tools.py line 83).
IsLLMAgent(config, cur) ==
  \/ config.agents[cur.s].type = "llm_agent"
  \/ /\ config.agents[cur.s].type = "tool_agent"
     /\ config.agents[cur.s].tool_name = "StructuredDataParserTool"

\* One iteration of "while current_agent_id:", the model answering with one
\* of the given responses.
StepWith(responses) ==
  /\ status = "running"
  /\ Len(trace) < StepCap
  /\ \E answers \in [1..InputCount(cfg, current_agent_id) -> UserAnswers],
        response \in responses :
       \E r \in {RunStep(cfg, test_mode, pipeline_state, current_agent_id,
                           answers, response)} :
          /\ pipeline_state' = r.state
          /\ current_agent_id' = r.next
          /\ status' = IF r.err # NoError THEN "error"
                       ELSE IF Truthy(r.next) THEN "running" ELSE "finished"
          /\ trace' = Append(trace,
                             [agent |-> current_agent_id.s, err |-> r.err,
                              inputs |-> r.inputs, out |-> r.out,
                              prompted |-> r.prompted, invoked |-> r.invoked,
                              llm |-> IF r.invoked /\ IsLLMAgent(cfg, current_agent_id)
                                        THEN response ELSE PyNone,
                              msg |-> ErrorMessage(cfg, current_agent_id, r),
                              pre |-> pipeline_state])
  /\ UNCHANGED <<cfg, test_mode, cli>>

Step == StepWith(LLMResponses)

Next == Step

Spec == Init /\ [][Next]_vars

\* Pipelines of two agents that read the same source path one after the
\* other, over the initial inputs and the source paths below: fields of the
\* initial input, the initial input itself, the output of an agent that
\* never ran.
ask == <<"ask">>
again == <<"again">>
value_name == <<"value">>

InitialInputs ==
  {PyStr(<<>>), PyStr(<<"seed">>), PyList(<<PyInt(1)>>),
   PyDict([key \in {<<"a">>} |-> PyStr(<<"x">>)]),
   PyDict([key \in {<<"a">>} |-> PyDict([f \in {<<"b">>} |-> PyInt(1)])]),
   PyDict([key \in {<<"a">>, <<"b">>} |->
             IF key = <<"a">> THEN PyNone ELSE PyStr(<<>>)]),
   PyDict([key \in {<<"a", Dot, "b">>, <<>>} |-> PyInt(1)])}

SourcePaths ==
  {InitialInputKey, Join(ghost, out_name),
   InitialInputPrefix \o <<"a">>, InitialInputPrefix \o <<"b">>,
   InitialInputPrefix \o <<"a", Dot, "b">>, InitialInputPrefix,
   InitialInputPrefix \o <<"a", Dot>>}

RefKnobs == [initial : InitialInputs, path : SourcePaths]

RefAgent(r) ==
  Agent("tool_agent", "DataAggregatorTool", <<In(value_name, PyStr(r.path))>>,
        <<out_name>>,
        ToolConfig(NoLoopConfig, PyNone, <<[new |-> out_name, src |-> value_name]>>))

RefPipeline(r) ==
  [knobs |-> r,
   initial_input |-> r.initial,
   start_agent |-> PyStr(ask),
   agents |-> [a \in {ask, again} |-> RefAgent(r)],
   routing |-> [a \in {ask, again} |-> IF a = ask THEN PyStr(again) ELSE PyNone]]

RefInit == RunInit({RefPipeline(r) : r \in RefKnobs})

RefSpec == RefInit /\ [][Next]_vars

\* Pipelines that extract fields from the initial input with the
\* StructuredDataParserTool and hand the first field to a second agent.
extract == <<"extract">>
report == <<"report">>
request == <<"natural_language_request">>

FieldLists == {<<<<"name">>>>, <<<<"name">>, <<"email">>>>}

ParserKnobs == [fields : FieldLists, initial : {PyStr(<<"seed">>), PyStr(<<>>)}]

ParserPipeline(p) ==
  [knobs |-> p,
   initial_input |-> p.initial,
   start_agent |-> PyStr(extract),
   agents |-> [a \in {extract, report} |->
                 IF a = extract
                   THEN Agent("tool_agent", "StructuredDataParserTool",
                              <<In(request, PyStr(InitialInputKey))>>, p.fields,
                              ToolConfig(NoLoopConfig, PyNone, <<>>))
                   ELSE Agent("tool_agent", "DataAggregatorTool",
                              <<In(value_name, PyStr(Join(extract, <<"name">>)))>>,
                              <<out_name>>,
                              ToolConfig(NoLoopConfig, PyNone,
                                         <<[new |-> out_name, src |-> value_name]>>))],
   routing |-> [a \in {extract, report} |->
                  IF a = extract THEN PyStr(report) ELSE PyNone]]

\* What the model may answer the parser with: every text of at most two
\* lexemes, objects with one and two members, an object inside a sentence,
\* objects with a stray comma, and the sentinel of a failed invocation.
Lexemes == {LBrace, RBrace, "[", "]", "\"name\"", "1", "null", "text"}

ParserResponses ==
  {PyStr(<<>>), LLMError}
    \cup {PyStr(<<x>>) : x \in Lexemes}
    \cup {PyStr(<<x, y>>) : x, y \in Lexemes}
    \cup {PyStr(<<LBrace, "\"name\"", Colon, v, RBrace>>) : v \in JsonScalars}
    \cup {PyStr(<<LBrace, "\"email\"", Colon, "\"John\"", RBrace>>),
          PyStr(<<LBrace, "\"name\"", Colon, "\"John\"", Comma,
                  "\"email\"", Colon, "null", RBrace>>),
          PyStr(<<LBrace, "\"name\"", Colon, "1", Comma,
                  "\"name\"", Colon, "\"John\"", RBrace>>),
          PyStr(<<"text", LBrace, "\"name\"", Colon, "\"John\"", RBrace, "text">>),
          PyStr(<<LBrace, "\"name\"", Colon, "\"John\"", Comma, Comma, RBrace>>),
          PyStr(<<LBrace, "\"name\"", Colon, "\"John\"", RBrace, RBrace>>)}

ParserInit == RunInit({ParserPipeline(p) : p \in ParserKnobs})

ParserStep == StepWith(ParserResponses)

ParserRun == ParserStep

ParserSpec == ParserInit /\ [][ParserRun]_vars

\* ------------------------------------------------------------- CLI main()
\* What the operator types at the confirmation prompt, character by
\* character, and str.strip() and str.lower() on it.
Confirmations ==
  {<<"y", "e", "s">>, <<"Y", "E", "S">>, <<"Y", "e", "s">>,
   <<" ", "y", "e", "s", " ">>, <<"n", "o">>, <<>>, <<"y">>,
   <<"y", "e", "s", " ", "y">>, <<"y", " ", "e", "s">>}

RECURSIVE Strip(_)
Strip(chars) ==
  IF chars = <<>> THEN chars
  ELSE IF Head(chars) = " " THEN Strip(Tail(chars))
  ELSE IF chars[Len(chars)] = " " THEN Strip(SubSeq(chars, 1, Len(chars) - 1))
  ELSE chars

Lower(chars) ==
  [n \in 1..Len(chars) |->
     CASE chars[n] = "Y" -> "y"
       [] chars[n] = "E" -> "e"
       [] chars[n] = "S" -> "s"
       [] OTHER -> chars[n]]

\* Mutant: the answer is compared as typed.
Confirmed_AsTyped(answer) == answer = <<"y", "e", "s">>

\* Lines 120-121: input(...).strip().lower() == "yes"
Confirmed(answer) == Lower(Strip(answer)) = <<"y", "e", "s">>

\* What open() and json.load() find at the configuration path: no file, a
\* file that is not JSON, a JSON file that is not an object (config.get of
\* line 103 raises AttributeError, which ends the process with status 1),
\* or a pipeline definition.
ConfigFiles == {"missing", "invalid", "array", "object"}

MainConfigs == {ChainPipeline(c) : c \in ChainKnobs}

NoConfig == [initial_input |-> PyNone, start_agent |-> PyNone]

MainInit ==
  /\ cfg = NoConfig
  /\ test_mode = FALSE
  /\ pipeline_state = EmptyDict
  /\ current_agent_id = PyNone
  /\ status = "idle"
  /\ trace = <<>>
  /\ cli = [pc |-> "start", config_path |-> "", file |-> "", answer |-> <<>>,
            exit_code |-> PyNone, created |-> FALSE]

\* Lines 86-97: the path is sys.argv[1], or what create_and_save_pipeline
\* returns; when that raises ValueError or RuntimeError, sys.exit(1).
DetermineConfig ==
  /\ cli.pc = "start"
  /\ \E how \in {"argv", "created", "failed"} :
       cli' = IF how = "failed"
                THEN [cli EXCEPT !.pc = "exit", !.exit_code = PyInt(1)]
                ELSE [cli EXCEPT !.pc = "load", !.config_path = how]
  /\ UNCHANGED <<cfg, test_mode, pipeline_state, current_agent_id, status, trace>>

\* Lines 100-111: load the configuration or sys.exit(1).
LoadConfig ==
  /\ cli.pc = "load"
  /\ \E file \in ConfigFiles :
       IF file = "object"
         THEN /\ cfg' \in MainConfigs
              /\ cli' = [cli EXCEPT !.pc = "confirm", !.file = file]
         ELSE /\ cfg' = cfg
              /\ cli' = [cli EXCEPT !.pc = "exit", !.file = file,
                                    !.exit_code = PyInt(1)]
  /\ UNCHANGED <<test_mode, pipeline_state, current_agent_id, status, trace>>

\* Lines 117-129: ask; sys.exit(0) unless confirmed; else construct the
\* Orchestrator and enter run() (orchestrator.py lines 145-152).
Confirm ==
  /\ cli.pc = "confirm"
  /\ \E answer \in Confirmations :
       IF Confirmed(answer)
         THEN /\ cli' = [cli EXCEPT !.pc = "run", !.answer = answer,
                                    !.created = TRUE]
              /\ pipeline_state' =
                   [x \in {InitialInputKey} |->
                      IF cfg.initial_input = PyStr(<<>>)
                        THEN PyNone ELSE cfg.initial_input]
              /\ current_agent_id' = cfg.start_agent
              /\ status' = IF Truthy(cfg.start_agent) THEN "running" ELSE "finished"
         ELSE /\ cli' = [cli EXCEPT !.pc = "exit", !.answer = answer,
                                    !.exit_code = PyInt(0)]
              /\ UNCHANGED <<pipeline_state, current_agent_id, status>>
  /\ UNCHANGED <<cfg, test_mode, trace>>

MainNext == DetermineConfig \/ LoadConfig \/ Confirm \/ Step

MainSpec == MainInit /\ [][MainNext]_vars

\* ------------------------------------------------- display_pipeline_flow
\* The configurations displayed (the shape of sample_config_valid_for_display
\* of tests/test_main.py): up to three agents, each with a static 'next'
\* that names an agent, an agent that is not defined, or nothing; a start
\* agent that is defined, undefined, null or empty. form:
\*   "full"     the keys agents, routing and start_agent are there
\*   "empty"    the configuration is {}
\*   "unrouted" / "unstarted" / "agentless"  one of the three keys is missing
\*   "nobody"   the agents list is empty
agent1 == <<"agent1">>
agent2 == <<"agent2">>
agent3 == <<"agent3">>
nowhere == <<"nowhere">>

FlowAgents == {agent1, agent2, agent3}

FlowForms == {"full", "empty", "unrouted", "unstarted", "agentless", "nobody"}

FlowKnobs ==
  {f \in [next : [FlowAgents -> {PyStr(agent1), PyStr(agent2), PyStr(agent3),
                                  PyStr(nowhere), PyNone}],
          start : {PyStr(agent1), PyStr(nowhere), PyNone, PyStr(<<>>)},
          form : FlowForms] :
     f.form # "full" =>
       /\ f.start = PyStr(agent1)
       /\ \A a \in FlowAgents : f.next[a] = PyNone}

FlowConfig(f) ==
  [knobs |-> f,
   keys |-> CASE f.form = "empty" -> {}
              [] f.form = "unrouted" -> {"agents", "start_agent"}
              [] f.form = "unstarted" -> {"agents", "routing"}
              [] f.form = "agentless" -> {"routing", "start_agent"}
              [] OTHER -> {"agents", "routing", "start_agent"},
   agents |-> [a \in (IF f.form = "nobody" THEN {} ELSE FlowAgents) |->
                 IF a = agent1
                   THEN [type |-> "llm_agent", tool_name |-> ""]
                   ELSE [type |-> "tool_agent", tool_name |-> "TestTool"]],
   routing |-> f.next,
   start_agent |-> f.start]

\* The lines display_pipeline_flow prints, without their colours.
Line(kind, step, id, next) ==
  [kind |-> kind, step |-> step, id |-> id, next |-> next]

\* Mutant: the loop goes on while there is a next agent, visited or not.
KeepPrinting_Unvisited(current, visited_agents) == Truthy(current)

\* "while current_agent_id and current_agent_id not in visited_agents"
KeepPrinting(current, visited_agents) ==
  Truthy(current) /\ current.s \notin visited_agents

FlowInit ==
  /\ cfg \in {FlowConfig(f) : f \in FlowKnobs}
  /\ test_mode = FALSE
  /\ pipeline_state = EmptyDict
  /\ current_agent_id = PyNone
  /\ status = "idle"
  /\ trace = <<>>
  /\ cli = [pc |-> "display", current_agent_id |-> PyNone,
            visited_agents |-> {}, step_number |-> 1, printed |-> <<>>]

\* Lines 19-33: the title, the checks of the configuration and of the start
\* agent, the locals of the loop.
DisplayStart ==
  /\ cli.pc = "display"
  /\ cli' =
       IF cfg.keys # {"agents", "routing", "start_agent"}
         THEN [cli EXCEPT
                 !.pc = "returned",
                 !.printed = <<Line("title", 0, <<>>, PyNone),
                               Line("invalid", 0, <<>>, PyNone)>>]
       ELSE IF ~Truthy(cfg.start_agent)
                 \/ cfg.start_agent.s \notin DOMAIN cfg.agents
         THEN [cli EXCEPT
                 !.pc = "returned",
                 !.current_agent_id = cfg.start_agent,
                 !.printed = <<Line("title", 0, <<>>, PyNone),
                               Line("no start", 0, cfg.start_agent.s, PyNone)>>]
       ELSE [cli EXCEPT
               !.pc = "loop",
               !.current_agent_id = cfg.start_agent,
               !.visited_agents = {},
               !.step_number = 1,
               !.printed = <<Line("title", 0, <<>>, PyNone)>>]
  /\ UNCHANGED <<cfg, test_mode, pipeline_state, current_agent_id, status, trace>>

\* Lines 35-62: one iteration of the loop; an agent that is not in the
\* agents list ends it with a break.
DisplayStep ==
  /\ cli.pc = "loop"
  /\ KeepPrinting(cli.current_agent_id, cli.visited_agents)
  /\ cli' =
       IF cli.current_agent_id.s \notin DOMAIN cfg.agents
         THEN [cli EXCEPT
                 !.pc = "after",
                 !.visited_agents = @ \cup {cli.current_agent_id.s},
                 !.printed = Append(@, Line("undefined", cli.step_number,
                                            cli.current_agent_id.s, PyNone))]
         ELSE [cli EXCEPT
                 !.visited_agents = @ \cup {cli.current_agent_id.s},
                 !.printed =
                   Append(@, Line("agent", cli.step_number,
                                  cli.current_agent_id.s,
                                  Get(cfg.routing, cli.current_agent_id.s,
                                      PyNone))),
                 !.current_agent_id =
                   Get(cfg.routing, cli.current_agent_id.s, PyNone),
                 !.step_number = @ + 1]
  /\ UNCHANGED <<cfg, test_mode, pipeline_state, current_agent_id, status, trace>>

\* Lines 64-68: after the loop, the warning for an agent already visited
\* and the note for an empty agents list; the function returns.
DisplayEnd ==
  /\ \/ cli.pc = "after"
     \/ /\ cli.pc = "loop"
        /\ ~KeepPrinting(cli.current_agent_id, cli.visited_agents)
  /\ cli' =
       [cli EXCEPT
          !.pc = "returned",
          !.printed =
            @ \o (IF Truthy(cli.current_agent_id)
                       /\ cli.current_agent_id.s \in cli.visited_agents
                    THEN <<Line("warning", 0, cli.current_agent_id.s, PyNone)>>
                    ELSE <<>>)
              \o (IF cli.step_number = 1 /\ DOMAIN cfg.agents = {}
                    THEN <<Line("no agents", 0, <<>>, PyNone)>>
                    ELSE <<>>)]
  /\ UNCHANGED <<cfg, test_mode, pipeline_state, current_agent_id, status, trace>>

FlowNext == DisplayStart \/ DisplayStep \/ DisplayEnd

FlowSpec == FlowInit /\ [][FlowNext]_vars

\* The runs of the linear pipelines.
ChainInit == RunInit({ChainPipeline(c) : c \in ChainKnobs})

ChainStep == StepWith(ChainResponses)

ChainRun == ChainStep

ChainSpec == ChainInit /\ [][ChainRun]_vars

\* The runs of the looping pipelines with their iteration sources.
LoopCfgInit == RunInit({LoopCfgPipeline(f) : f \in LoopCfgKnobs})

LoopCfgSpec == LoopCfgInit /\ [][Next]_vars

\* The runs of the pipelines that start at a conditional router.
CondInit == RunInit({CondPipeline(k) : k \in CondKnobs})

CondSpec == CondInit /\ [][Next]_vars

\* The looping pipelines with the routing table leading from the post-loop
\* step back to the router, which is so invoked again after its termination.
ReentryPipeline(k) == [Pipeline(k) EXCEPT !.routing[post] = PyStr(router)]

ReentryInit == RunInit({ReentryPipeline(k) : k \in Knobs})

ReentrySpec == ReentryInit /\ [][Next]_vars

\* The looping pipelines entered through one more agent, gen2, whose id
\* starts with the id of the loop-body agent gen (the text "gen2" is the two
\* tokens "gen", "2"): its output is in the State Store throughout the loop.
gen2 == <<"gen", "2">>

PrefixPipeline(k) ==
  LET base == Pipeline(k)
  IN [base EXCEPT
        !.start_agent = PyStr(gen2),
        !.agents = [a \in AgentIds(k) \cup {gen2} |->
                      IF a = gen2
                        THEN Agent("tool_agent", "DataAggregatorTool",
                                   <<In(<<"n">>, PyInt(0))>>, <<<<"seen">>>>,
                                   ToolConfig(NoLoopConfig, PyNone,
                                              <<[new |-> <<"seen">>,
                                                 src |-> <<"n">>]>>))
                        ELSE base.agents[a]],
        !.routing = [a \in AgentIds(k) \cup {gen2} |->
                       IF a = gen2 THEN base.start_agent ELSE base.routing[a]]]

PrefixInit == RunInit({PrefixPipeline(k) : k \in Knobs})

PrefixSpec == PrefixInit /\ [][Next]_vars

\* The looping pipelines with the post-loop step of the router left out
\* (else: "null"), empty (the string "") or post, and the routing table
\* leading from the router to post or nowhere (next: "null").
ElseKnobs ==
  [shape : Shapes, n : 0..MaxN, selfclear : {FALSE}, nullnote : {FALSE},
   else : {"null", "empty", "post"}, next : {"null", "post"}]

ElsePipeline(e) ==
  [Pipeline([shape |-> e.shape, n |-> e.n, selfclear |-> FALSE,
             nullnote |-> FALSE])
     EXCEPT
       !.knobs = e,
       !.agents[router].tool_config.else_execute_step =
         CASE e.else = "null" -> PyNone
           [] e.else = "empty" -> PyStr(<<>>)
           [] e.else = "post" -> PyStr(post),
       !.routing[router] = IF e.next = "post" THEN PyStr(post) ELSE PyNone]

ElseInit == RunInit({ElsePipeline(e) : e \in ElseKnobs})

ElseSpec == ElseInit /\ [][Next]_vars

\* The runs of the routers with and without a loop configuration.
ModeInit == RunInit({ModePipeline(k) : k \in ModeKnobs})

ModeSpec == ModeInit /\ [][Next]_vars

\* Mutant: a sentinel error value is reported as a missing output.
FinalValue_HideErrors(final_state, source_path) ==
  IF Get(final_state, source_path, PyNone) \in {LLMError, PyList(<<LLMError>>)}
    THEN PyNone
    ELSE Get(final_state, source_path, PyNone)

\* Orchestrator.get_final_outputs: the value of one label's source path.
FinalValue(final_state, source_path) ==
  IF StartsWith(source_path, InitialInputPrefix)
    THEN LET initial_input_object_path ==
               JoinAll(SubSeq(Split(source_path), 3, Len(Split(source_path))))
             initial_input_data == Get(final_state, InitialInputKey, PyNone)
         IN IF initial_input_data.t = "dict"
              THEN GetValueFromPath(initial_input_data, initial_input_object_path)
            ELSE IF initial_input_object_path = <<>>
                      /\ initial_input_data.t # "none"
              THEN initial_input_data
            ELSE PyNone
  ELSE Get(final_state, source_path, PyNone)

\* f"Error: Output '{source_path}' not found in final state"
NotFoundMessage(source_path) ==
  PyStr(<<"Error: Output '">> \o source_path \o <<"' not found in final state">>)

GetFinalOutputs(final_outputs_map, final_state) ==
  [key \in {final_outputs_map[n].name : n \in 1..Len(final_outputs_map)} |->
     LET n == CHOOSE j \in 1..Len(final_outputs_map) :
                /\ final_outputs_map[j].name = key
                /\ \A q \in (j + 1)..Len(final_outputs_map) :
                     final_outputs_map[q].name # key
         value == FinalValue(final_state, final_outputs_map[n].src)
     IN IF value.t = "none" THEN NotFoundMessage(final_outputs_map[n].src)
        ELSE value]

\* ------------------------------------------------------- reading the trace
Steps == 1..Len(trace)

\* The State Store after the m-th iteration.
PostState(m) == IF m < Len(trace) THEN trace[m + 1].pre ELSE pipeline_state

\* The agent run() turned to after the m-th iteration (None: the loop ended).
AgentAfter(m) ==
  IF m < Len(trace) THEN PyStr(trace[m + 1].agent) ELSE current_agent_id

Completed(m) == trace[m].err = NoError

\* The two shapes of a loop-mode result.
IsContinuation(out) == UpdateStateKey \in DOMAIN out /\ ClearKey \in DOMAIN out

IsTermination(out) == NextStepKey \in DOMAIN out /\ ~IsContinuation(out)

RouterSteps == {m \in Steps : trace[m].agent = router /\ Completed(m)}

Continuations == {m \in RouterSteps : IsContinuation(trace[m].out)}

Terminations == {m \in RouterSteps : IsTermination(trace[m].out)}

ContinuationsBefore(m) == Cardinality({j \in Continuations : j < m})

TotalN == cfg.knobs.n

CounterKey == Join(router, counter)

AccumulatorKey == Join(router, all_items)

\* The counter as the router reads it: 0 when the key is absent.
CounterIn(state) == Get(state, CounterKey, PyInt(0))

\* The router's keys reach its next invocation: it does not name itself in
\* its own clear-outputs list (the counter and accumulator names of the
\* explored pipelines contain no ".").
LoopStateKept == ~cfg.knobs.selfclear

NonEmptyFeed(m) ==
  /\ <<"item">> \in DOMAIN trace[m].inputs
  /\ trace[m].inputs[<<"item">>].t # "none"
  /\ ~(trace[m].inputs[<<"item">>].t = "str" /\ trace[m].inputs[<<"item">>].s = <<>>)

InvocationsUpTo(m) == {j \in RouterSteps : j <= m}

FeedsUpTo(m) == Cardinality({j \in InvocationsUpTo(m) : NonEmptyFeed(j)})

CarriedList(m) == trace[m].out[all_items]

\* C2 as stated: at termination the accumulator list has length <= N, and
\* exactly N if the feeding input was non-empty on every iteration.
C2_Original ==
  \A m \in Terminations :
    /\ Len(CarriedList(m).l) <= TotalN
    /\ (\A j \in InvocationsUpTo(m) : NonEmptyFeed(j)) =>
         Len(CarriedList(m).l) = TotalN

\* C2, amended: the list carried by the termination directive is stored at
\* 'R.<accumulatorName>' and has length <= N + 1; when the router's keys are
\* kept, the router was invoked N + 1 times and the length is the number of
\* those invocations whose feeding input was present and non-empty.
C2_AccumulatorLength ==
  \A m \in Terminations :
    /\ CarriedList(m).t = "list"
    /\ PostState(m)[AccumulatorKey] = CarriedList(m)
    /\ Len(CarriedList(m).l) <= TotalN + 1
    /\ LoopStateKept =>
         /\ Cardinality(InvocationsUpTo(m)) = TotalN + 1
         /\ Len(CarriedList(m).l) = FeedsUpTo(m)

C2_Witness ==
  \E m \in Terminations :
    /\ LoopStateKept
    /\ TotalN = 2
    /\ \A j \in InvocationsUpTo(m) : NonEmptyFeed(j)
    /\ Len(CarriedList(m).l) = 3
    /\ PostState(m)[AccumulatorKey] = CarriedList(m)

\* The State Store keys under the prefix "<agent>.".
KeysOf(agent, state) ==
  {x \in DOMAIN state : StartsWith(x, agent \o <<Dot>>)}

Reexecuted(agent, lo, hi) ==
  \E j \in lo..hi : j \in Steps /\ trace[j].agent = agent /\ Completed(j)

\* The source paths input resolution prompted for (and wrote) in lo..hi.
PromptedIn(lo, hi) ==
  UNION {{trace[j].prompted[n] : n \in 1..Len(trace[j].prompted)} :
           j \in (lo..hi) \cap Steps}

\* C3 as stated: after a continuation whose clear-outputs list names A, no
\* key with prefix 'A.' exists in any later state until A re-executes, in
\* both postures.
C3_Original ==
  \A m \in Continuations : \A a \in AgentIdsToClear(trace[m].out) :
    \A q \in m..Len(trace) :
      ~Reexecuted(a, m + 1, q) => KeysOf(a, PostState(q)) = {}

\* C3, amended: no key with prefix 'A.' exists at the end of the continuation
\* step; until A re-executes, none exists in the strict posture, and in the
\* interactive posture the only ones are source paths that input resolution
\* prompted for and wrote back.
C3_ClearedUntilReexecuted ==
  \A m \in Continuations : \A a \in AgentIdsToClear(trace[m].out) :
    \A q \in m..Len(trace) :
      ~Reexecuted(a, m + 1, q) =>
        /\ KeysOf(a, PostState(q)) \subseteq PromptedIn(m + 1, q)
        /\ test_mode => KeysOf(a, PostState(q)) = {}

C3_Witness ==
  \E m \in Continuations : \E a \in AgentIdsToClear(trace[m].out) :
    /\ test_mode
    /\ KeysOf(a, trace[m].pre) # {}
    /\ m + 1 \in Steps
    /\ Completed(m + 1)
    /\ ~Reexecuted(a, m + 1, Len(trace))
    /\ KeysOf(a, pipeline_state) = {}

\* C4: when the executed agent's output map carries a next-step override (an
\* agent id), run() turns to that agent next, whatever the RoutingTable
\* holds for the current agent.
C4_OverrideWins ==
  \A m \in Steps :
    (Completed(m) /\ NextStepKey \in DOMAIN trace[m].out
       /\ Truthy(trace[m].out[NextStepKey])) =>
      AgentAfter(m) = trace[m].out[NextStepKey]

C4_Witness ==
  \E m \in Steps :
    /\ Completed(m)
    /\ NextStepKey \in DOMAIN trace[m].out
    /\ Truthy(trace[m].out[NextStepKey])
    /\ trace[m].agent \in DOMAIN cfg.routing
    /\ Truthy(cfg.routing[trace[m].agent])
    /\ cfg.routing[trace[m].agent] # trace[m].out[NextStepKey]
    /\ AgentAfter(m) = trace[m].out[NextStepKey]

\* C5: control directives are never persisted: the State Store holds no key
\* '<agentId>._next_step_id', '<agentId>._update_state' or
\* '<agentId>._clear_agent_outputs'.
C5_NoDirectiveKeys ==
  \A a \in DOMAIN cfg.agents :
    \A directive \in {NextStepKey, UpdateStateKey, ClearKey} :
      Join(a, directive) \notin DOMAIN pipeline_state

\* The keys the m-th iteration created or gave another value.
ChangedKeys(m) ==
  {x \in DOMAIN PostState(m) :
     x \notin DOMAIN trace[m].pre \/ PostState(m)[x] # trace[m].pre[x]}

\* The fully-qualified keys named by the m-th iteration's state patch.
DottedPatchKeys(m) ==
  IF UpdateStateKey \in DOMAIN trace[m].out /\ trace[m].out[UpdateStateKey].t = "dict"
    THEN {key \in DOMAIN trace[m].out[UpdateStateKey].d : HasDot(key)}
    ELSE {}

\* C6 as stated: in both postures a key is created or overwritten only under
\* the executing agent's prefix or by a state-patch entry naming the
\* fully-qualified key; input resolution writes nothing.
C6_Original ==
  \A m \in Steps :
    ChangedKeys(m) \subseteq KeysOf(trace[m].agent, PostState(m)) \cup DottedPatchKeys(m)

\* C6, amended: the same, except that in the interactive posture input
\* resolution writes the operator's answer under the source path of each
\* input that resolved to NotFound; in the strict posture it writes nothing.
C6_WritersOfKeys ==
  \A m \in Steps :
    /\ ChangedKeys(m) \subseteq
         KeysOf(trace[m].agent, PostState(m)) \cup DottedPatchKeys(m)
           \cup PromptedIn(m, m)
    /\ test_mode => trace[m].prompted = <<>>

C6_Witness ==
  \E m \in Steps :
    /\ ~test_mode
    /\ Completed(m)
    /\ \E x \in ChangedKeys(m) :
         x \in PromptedIn(m, m) /\ x \notin KeysOf(trace[m].agent, PostState(m))
    /\ \E y \in ChangedKeys(m) : y \in KeysOf(trace[m].agent, PostState(m))

\* The path-valued inputs of the agent of the m-th iteration.
InputsOf(m) ==
  IF trace[m].agent \in DOMAIN cfg.agents
    THEN cfg.agents[trace[m].agent].inputs ELSE <<>>

PathInputs(m) == {n \in 1..Len(InputsOf(m)) : InputsOf(m)[n].src.t = "str"}

\* The path names an agent's output key '<A>.<o>'.
IsOutputKey(path) ==
  \E a \in DOMAIN cfg.agents : StartsWith(path, a \o <<Dot>>)

\* The m-th iteration resolved its n-th input to the value the State Store
\* held for it, without a prompt and without a missing-input error for it.
ResolvedFromState(m, n) ==
  LET name == InputsOf(m)[n].name
      path == InputsOf(m)[n].src.s
  IN /\ \A q \in 1..Len(trace[m].prompted) : trace[m].prompted[q] # path
     /\ name \in DOMAIN trace[m].inputs =>
          trace[m].inputs[name] = trace[m].pre[path]
     /\ trace[m].err = "MissingInput" =>
          \E n2 \in PathInputs(m) :
            n2 # n /\ InputsOf(m)[n2].src.s \notin DOMAIN trace[m].pre

\* C7 as stated: a written output key that no clear-outputs directive has
\* removed since resolves to its stored value, whatever that value is.
C7_Original ==
  \A m \in Steps : \A n \in PathInputs(m) :
    LET path == InputsOf(m)[n].src.s
    IN (IsOutputKey(path) /\ path \in DOMAIN trace[m].pre) =>
         ResolvedFromState(m, n)

\* C7, amended: the same for every stored value other than None; a key whose
\* stored value is None resolves like a missing key.
C7_WrittenKeyVisible ==
  \A m \in Steps : \A n \in PathInputs(m) :
    LET path == InputsOf(m)[n].src.s
    IN (IsOutputKey(path) /\ path \in DOMAIN trace[m].pre) =>
         IF trace[m].pre[path].t # "none"
           THEN ResolvedFromState(m, n)
           ELSE IF test_mode THEN trace[m].err = "MissingInput"
                ELSE \E q \in 1..Len(trace[m].prompted) :
                       trace[m].prompted[q] = path

C7_Witness ==
  \E m \in Steps :
    /\ trace[m].agent = gen
    /\ Completed(m)
    /\ <<"iter">> \in DOMAIN trace[m].inputs
    /\ trace[m].inputs[<<"iter">>] = PyInt(2)
    /\ trace[m].pre[CounterKey] = PyInt(2)
    /\ trace[m].prompted = <<>>

\* The path-valued inputs of the m-th iteration that resolve to NotFound in
\* the state the iteration starts from.
MissingPaths(m) ==
  {n \in PathInputs(m) : Lookup(trace[m].pre, InputsOf(m)[n].src.s).t = "none"}

\* C8: in the strict posture an iteration with a path-valued input that
\* resolves to NotFound aborts the run before the model or tool is invoked
\* and leaves the State Store as it was; in no posture is a model or tool
\* invoked with None for a path-valued input.
C8_NoUndefinedInput ==
  \A m \in Steps :
    /\ (test_mode /\ MissingPaths(m) # {}) =>
         /\ trace[m].err = "MissingInput"
         /\ ~trace[m].invoked
         /\ PostState(m) = trace[m].pre
         /\ m = Len(trace)
         /\ status = "error"
    /\ trace[m].invoked =>
         \A n \in PathInputs(m) :
           /\ InputsOf(m)[n].name \in DOMAIN trace[m].inputs
           /\ trace[m].inputs[InputsOf(m)[n].name].t # "none"

C8_Witness ==
  /\ test_mode
  /\ status = "error"
  /\ Len(trace) >= 2
  /\ trace[Len(trace)].err = "MissingInput"
  /\ ~trace[Len(trace)].invoked
  /\ MissingPaths(Len(trace)) # {}
  /\ pipeline_state = trace[Len(trace)].pre

\* The values agent `a` stored under output `key`, in execution order, over
\* the first n iterations.
RECURSIVE OutputsOf(_, _, _)
OutputsOf(a, key, n) ==
  IF n = 0 THEN <<>>
  ELSE OutputsOf(a, key, n - 1)
         \o (IF trace[n].agent = a /\ Completed(n) THEN <<trace[n].out[key]>>
             ELSE <<>>)

\* The values of a sequence that are neither None nor the empty string.
RECURSIVE NonEmpty(_)
NonEmpty(values) ==
  IF values = <<>> THEN <<>>
  ELSE (IF Head(values).t = "none" \/ Head(values) = PyStr(<<>>) THEN <<>>
        ELSE <<Head(values)>>) \o NonEmpty(Tail(values))

\* setup -> router (loop mode) -> loop body -> back to the router -> post.
LoopShaped == cfg.knobs.shape \in {"loop", "loop2"} /\ LoopStateKept

BodyRuns == Cardinality({m \in Steps : trace[m].agent = gen /\ Completed(m)})

\* What the operator answered when the router's first invocation prompted
\* for the body output that did not exist yet.
FirstAnswer ==
  LET first == CHOOSE m \in RouterSteps : \A j \in RouterSteps : m <= j
  IN trace[first].inputs[<<"item">>]

IterationBound ==
  1 + (TotalN + 1) + TotalN * (IF cfg.knobs.shape = "loop2" THEN 2 ELSE 1) + 1

BodyRunsUpTo(m) == Cardinality({j \in Steps : j <= m /\ trace[j].agent = gen})

C12_AccumulateBeforeDecision ==
  \A m \in Terminations :
    NonEmptyFeed(m) =>
      /\ CarriedList(m).t = "list"
      /\ CarriedList(m).l =
           Append(Get(trace[m].pre, AccumulatorKey, PyList(<<>>)).l,
                  trace[m].inputs[<<"item">>])
      /\ CarriedList(m).l[Len(CarriedList(m).l)] = trace[m].inputs[<<"item">>]

C12_Witness ==
  \E m \in Terminations :
    /\ NonEmptyFeed(m)
    /\ TotalN = 2
    /\ CounterIn(trace[m].pre) = PyInt(TotalN)
    /\ Len(Get(trace[m].pre, AccumulatorKey, PyList(<<>>)).l) = 1
    /\ trace[m].inputs[<<"item">>] = PyStr(<<"b">>)
    /\ CarriedList(m).l[2] = PyStr(<<"b">>)

\* The router's first invocation of the run.
FirstRouterSteps == {m \in RouterSteps : \A j \in RouterSteps : m <= j}

\* C13 as stated: with total_iterations = 0 the first loop-mode call returns
\* the termination directive to the post-loop step, with an empty accumulator
\* list and no state patch.
C13_Original ==
  TotalN = 0 =>
    \A m \in FirstRouterSteps :
      /\ IsTermination(trace[m].out)
      /\ trace[m].out[NextStepKey] = PyStr(post)
      /\ UpdateStateKey \notin DOMAIN trace[m].out
      /\ CarriedList(m) = PyList(<<>>)

\* C13, amended: with total_iterations = 0 the first loop-mode call returns
\* the termination directive to the post-loop step (which the runner turns
\* to) with no state patch and no clear-outputs list; the accumulator list it
\* carries holds this call's feeding input when that is present and non-empty
\* (accumulation precedes the decision) and is empty otherwise.
C13_ZeroIterations ==
  TotalN = 0 =>
    \A m \in FirstRouterSteps :
      /\ IsTermination(trace[m].out)
      /\ trace[m].out[NextStepKey] = PyStr(post)
      /\ AgentAfter(m) = PyStr(post)
      /\ UpdateStateKey \notin DOMAIN trace[m].out
      /\ ClearKey \notin DOMAIN trace[m].out
      /\ CounterKey \notin DOMAIN PostState(m)
      /\ CarriedList(m) = IF NonEmptyFeed(m)
                            THEN PyList(<<trace[m].inputs[<<"item">>]>>)
                            ELSE PyList(<<>>)

C13_Witness ==
  \E m \in FirstRouterSteps :
    /\ TotalN = 0
    /\ cfg.knobs.shape = "loop"
    /\ IsTermination(trace[m].out)
    /\ ~NonEmptyFeed(m)
    /\ CarriedList(m) = PyList(<<>>)
    /\ AgentAfter(m) = PyStr(post)

\* A linear pipeline with nothing wrong in its definition, run so that every
\* input resolves or is asked for.
Linear == cfg.knobs.fault = "none" /\ ~(cfg.knobs.hint /\ test_mode)

FinalOutputs == GetFinalOutputs(cfg.final_outputs, pipeline_state)

\* C14: a linear pipeline of k agents chained by the routing table runs
\* agent 1, 2, ..., k in this order, each once and to completion, returns
\* after exactly k iterations, and its final outputs are the values the
\* named steps wrote (the k-th step's output, the first step's output) and
\* the initial input.
C14_LinearPipeline ==
  Linear =>
    /\ status # "error"
    /\ Len(trace) <= cfg.knobs.k
    /\ \A m \in Steps : trace[m].agent = StepId(m) /\ Completed(m)
    /\ status = "finished" <=> Len(trace) = cfg.knobs.k
    /\ status = "finished" =>
         /\ DOMAIN FinalOutputs =
              {<<"last">>, <<"first">>, <<"topic">>, <<"missing">>, <<"hint">>}
         /\ FinalOutputs[<<"last">>] = trace[cfg.knobs.k].out[out_name]
         /\ FinalOutputs[<<"first">>] = trace[1].out[out_name]
         /\ FinalOutputs[<<"topic">>] = cfg.initial_input

C14_Witness ==
  /\ Linear
  /\ cfg.knobs.k = 3
  /\ status = "finished"
  /\ Len(trace) = 3
  /\ <<trace[1].agent, trace[2].agent, trace[3].agent>> = <<parse, generate, write>>
  /\ trace[3].out[out_name] = PyStr(<<"a">>)
  /\ FinalOutputs[<<"last">>] = PyStr(<<"a">>)

\* Whether a (variable, operator, value) triple matches a subject as the
\* specification reads it: operands of the wrong type do not match.
Matches(operator, actual_value, value) ==
  CASE operator = "equals" -> actual_value = value
    [] operator = "not_equals" -> actual_value # value
    [] operator = "contains" ->
         /\ actual_value.t \in {"str", "list", "dict"}
         /\ Contains(actual_value, value).holds
    [] operator = "not_contains" ->
         /\ actual_value.t \in {"str", "list", "dict"}
         /\ Contains(actual_value, value).err = NoError
         /\ ~Contains(actual_value, value).holds
    [] operator \in {"gt", "lt"} ->
         /\ actual_value.t = "int"
         /\ value.t = "int"
         /\ Compare(operator, actual_value, value).holds
    [] OTHER -> FALSE

\* The invocations of the conditional router, and its groups.
CondSteps == {m \in Steps : trace[m].agent = router}

Groups == cfg.agents[router].tool_config.condition_groups

GroupMatches(m, n) ==
  Matches(Groups[n].operator,
          Get(trace[m].inputs, Groups[n].variable.s, PyNone), Groups[n].value)

\* A group whose operands have mismatched types: a str subject with a
\* non-str value or a dict subject with an unhashable value under
\* contains/not_contains, a number compared with a non-number under gt/lt.
GroupMismatched(m, n) ==
  LET actual_value == Get(trace[m].inputs, Groups[n].variable.s, PyNone)
      value == Groups[n].value
  IN \/ /\ Groups[n].operator \in {"contains", "not_contains"}
        /\ \/ actual_value.t \notin {"str", "list", "dict"}
           \/ actual_value.t = "str" /\ value.t # "str"
           \/ actual_value.t = "dict" /\ value.t \in {"list", "dict"}
     \/ /\ Groups[n].operator \in {"gt", "lt"}
        /\ actual_value.t # "int" \/ value.t # "int"

\* C15: in plain conditional mode the router returns, as the only entry of
\* its output map, the then_execute_step of the first group in list order
\* whose triple matches the resolved inputs; when no group matches, the
\* else_execute_step if one is configured, and otherwise an empty map, after
\* which the runner follows the router's static routing entry.
C15_FirstMatch ==
  \A m \in CondSteps :
    LET matching == {n \in 1..Len(Groups) : GroupMatches(m, n)}
        first == CHOOSE n \in matching : \A q \in matching : n <= q
    IN /\ Completed(m)
       /\ matching # {} =>
            /\ trace[m].out = Put(EmptyDict, NextStepKey,
                                  Groups[first].then_execute_step)
            /\ AgentAfter(m) = Groups[first].then_execute_step
       /\ (matching = {} /\ cfg.knobs.else) =>
            /\ trace[m].out = Put(EmptyDict, NextStepKey, PyStr(else_target))
            /\ AgentAfter(m) = PyStr(else_target)
       /\ (matching = {} /\ ~cfg.knobs.else) =>
            /\ trace[m].out = EmptyDict
            /\ AgentAfter(m) = PyStr(static_next)

\* C16: in plain conditional mode a group whose operands have mismatched
\* types does not match and the router does not raise: every invocation
\* completes, and its result is not the then_execute_step of such a group.
C16_MismatchIsNoMatch ==
  \A m \in CondSteps :
    /\ Completed(m)
    /\ \A n \in 1..Len(Groups) :
         (GroupMismatched(m, n) /\ \A q \in 1..(n - 1) : ~GroupMatches(m, q)) =>
           (NextStepKey \in DOMAIN trace[m].out =>
              trace[m].out[NextStepKey] # Groups[n].then_execute_step)

\* The errors the router raises for its loop configuration.
LoopConfigErrors == {"ValueError", "TypeError"}

\* The invocations of the loop router (its inputs were resolved).
LoopRouterCalls ==
  {m \in Steps : trace[m].agent = router /\ trace[m].err # "MissingInput"}

\* The value the iteration source gives the m-th iteration: the literal of
\* the configuration or the named input (None when there is none).
SourceValue(m) ==
  LET v == cfg.agents[router].tool_config.loop_config.total_iterations_from
  IN IF v.t = "str" THEN Get(trace[m].inputs, v.s, PyNone) ELSE v

SourceMissing(m) == SourceValue(m).t = "none"

SourceNotInteger(m) ==
  \/ SourceValue(m).t \in {"list", "dict"}
  \/ SourceValue(m).t = "str" /\ SourceValue(m).s \notin
       {<<"-1">>, <<"0">>, <<"1">>, <<"2">>, <<"3">>}

SourceNegative(m) ==
  \/ SourceValue(m).t = "int" /\ SourceValue(m).i < 0
  \/ SourceValue(m).t = "str" /\ SourceValue(m).s = <<"-1">>

\* C17: a loop-mode invocation whose total-iteration source is missing, is
\* not an integer or is a negative integer fails with a loop configuration
\* error and returns no directive.
C17_SourceMustBeNonNegative ==
  \A m \in LoopRouterCalls :
    (SourceMissing(m) \/ SourceNotInteger(m) \/ SourceNegative(m)) =>
      /\ trace[m].err \in LoopConfigErrors
      /\ trace[m].out = EmptyDict

\* The agents of the loop body, as the router's loop_body_agents lists them.
LoopBody ==
  LET agents == cfg.agents[router].tool_config.loop_config.loop_body_agents
  IN {agents[n] : n \in 1..Len(agents)}

CounterNameMissing ==
  ~Truthy(cfg.agents[router].tool_config.loop_config.counter_name)

\* How often agent a was executed before the m-th iteration.
RunsBefore(a, m) == Cardinality({j \in 1..(m - 1) : trace[j].agent = a})

\* C18 as stated: when a run ends with a loop configuration error, no agent
\* of the loop body has executed.
C18_Original ==
  \A m \in LoopRouterCalls :
    trace[m].err \in LoopConfigErrors =>
      \A a \in LoopBody : RunsBefore(a, m) = 0

\* C18, amended: a router invocation fails with a loop configuration error
\* exactly when its iteration source is missing or not an integer or the
\* counter name is missing; the error is raised by the router's first
\* invocation, ends the run and leaves the State Store as it was before the
\* step (apart from prompted inputs). No body agent has executed when the
\* pipeline reaches the router before the loop body; when the body precedes
\* the router, every body agent has executed once.
C18_LoopConfigErrorIsFatal ==
  \A m \in LoopRouterCalls :
    /\ trace[m].err \in LoopConfigErrors
         <=> (SourceMissing(m) \/ SourceNotInteger(m) \/ CounterNameMissing)
    /\ trace[m].err \in LoopConfigErrors =>
         /\ m = Len(trace)
         /\ status = "error"
         /\ \A j \in LoopRouterCalls : j >= m
         /\ \A key \in DOMAIN trace[m].pre :
              key \in DOMAIN pipeline_state
                /\ pipeline_state[key] = trace[m].pre[key]
         /\ DOMAIN pipeline_state \ DOMAIN trace[m].pre
              \subseteq {trace[m].prompted[n] : n \in 1..Len(trace[m].prompted)}
         /\ cfg.start_agent.s \notin LoopBody =>
              \A a \in LoopBody : RunsBefore(a, m) = 0
         /\ cfg.start_agent.s \in LoopBody =>
              \A a \in LoopBody : RunsBefore(a, m) = 1

C18_Witness ==
  /\ status = "error"
  /\ cfg.knobs.shape = "loop"
  /\ cfg.knobs.source = "word"
  /\ Len(trace) = 2
  /\ trace[1].agent = setup
  /\ trace[2].agent = router
  /\ trace[2].err = "ValueError"
  /\ SourceNotInteger(2)
  /\ \A a \in LoopBody : RunsBefore(a, 2) = 0

\* The m-th iteration left the State Store as it found it, apart from the
\* source paths the operator was prompted for.
StateKeptAt(m) ==
  /\ \A key \in DOMAIN trace[m].pre :
       key \in DOMAIN PostState(m) /\ PostState(m)[key] = trace[m].pre[key]
  /\ DOMAIN PostState(m) \ DOMAIN trace[m].pre
       \subseteq {trace[m].prompted[n] : n \in 1..Len(trace[m].prompted)}

\* The m-th iteration aborted the run: it is the last one and run() raised.
AbortedAt(m) == m = Len(trace) /\ status = "error"

\* C19: when an id that is not in the agent list becomes the current agent
\* (named by start_agent, by a routing entry or by a next-step override), the
\* iteration for it fails with the unknown-agent error that names the id,
\* executes nothing, changes nothing in the State Store, and is the last:
\* run() raises instead of returning the state. A pipeline whose start_agent,
\* routing or override names such an id aborts there, after the agents on
\* the way to it have completed.
C19_UnknownAgentAborts ==
  /\ \A m \in Steps :
       trace[m].agent \notin DOMAIN cfg.agents =>
         /\ trace[m].err = "UnknownAgent"
         /\ trace[m].agent = ghost
         /\ ~trace[m].invoked
         /\ trace[m].out = EmptyDict
         /\ trace[m].prompted = <<>>
         /\ pipeline_state = trace[m].pre
         /\ AbortedAt(m)
  /\ (/\ cfg.knobs.fault \in {"start", "next", "override"}
      /\ status # "running"
      /\ trace[Len(trace)].err # "MissingInput") =>
       LET reached == IF cfg.knobs.fault = "start" THEN 1 ELSE cfg.knobs.at + 1
       IN /\ status = "error"
          /\ Len(trace) = reached
          /\ trace[reached].agent = ghost
          /\ trace[reached].err = "UnknownAgent"
          /\ \A j \in 1..(reached - 1) :
               trace[j].agent = StepId(j) /\ Completed(j)

C19_Witness ==
  /\ cfg.knobs.fault = "override"
  /\ cfg.knobs.at = 2
  /\ cfg.knobs.k = 3
  /\ status = "error"
  /\ Len(trace) = 3
  /\ trace[2].out = Put(EmptyDict, NextStepKey, PyStr(ghost))
  /\ trace[3].agent = ghost
  /\ trace[3].err = "UnknownAgent"
  /\ pipeline_state = trace[3].pre

\* The kind of the agent of the m-th iteration, as run() classifies it.
AgentOf(m) == cfg.agents[trace[m].agent]

UnsupportedKind(m) ==
  AgentOf(m).type \notin {"llm_agent", "tool_agent"} \cup ToolRegistry

UnknownToolName(m) ==
  AgentOf(m).type = "tool_agent" /\ AgentOf(m).tool_name \notin ToolRegistry

\* C20: an agent whose type is neither llm_agent, tool_agent nor a registered
\* tool name fails at dispatch with the unsupported-agent-type error, a
\* tool_agent whose tool_name is not registered with the unknown-tool error;
\* and these errors arise in no other case. Neither a model nor a tool is
\* invoked, the run aborts, and the State Store holds no key under the
\* agent's prefix: it is as before the step, apart from prompted inputs.
C20_DispatchErrors ==
  \A m \in Steps :
    (trace[m].agent \in DOMAIN cfg.agents /\ trace[m].err # "MissingInput") =>
      /\ trace[m].err = "UnsupportedAgentType" <=> UnsupportedKind(m)
      /\ trace[m].err = "UnknownTool" <=> UnknownToolName(m)
      /\ (UnsupportedKind(m) \/ UnknownToolName(m)) =>
           /\ ~trace[m].invoked
           /\ trace[m].out = EmptyDict
           /\ AbortedAt(m)
           /\ StateKeptAt(m)
           /\ KeysOf(trace[m].agent, pipeline_state) = {}

C20_Witness ==
  /\ status = "error"
  /\ ~test_mode
  /\ cfg.knobs.hint
  /\ cfg.knobs.fault = "tool"
  /\ cfg.knobs.at = 2
  /\ Len(trace) = 2
  /\ trace[2].err = "UnknownTool"
  /\ trace[2].prompted # <<>>
  /\ KeysOf(generate, pipeline_state) = {}
  /\ KeysOf(parse, pipeline_state) # {}

\* ------------------------------------------------ failed model invocations
\* The iterations whose model invocation failed: invoke_llm returned the
\* sentinel.
FailedCalls == {m \in Steps : trace[m].llm = LLMError}

ListFormat(m) ==
  "output_format" \in DOMAIN AgentOf(m) /\ AgentOf(m).output_format = "list"

DeclaredOutput(m) == AgentOf(m).outputs[1]

\* C21 as stated: after a failed model invocation the agent's declared
\* output is the sentinel string itself, and the run goes on.
C21_Original ==
  \A m \in FailedCalls :
    /\ Completed(m)
    /\ trace[m].out = Put(EmptyDict, DeclaredOutput(m), LLMError)

\* C21: a failed model invocation never aborts the run. The step completes
\* without an error, the agent's declared output is stored as the sentinel
\* string, or as the one-element list holding the sentinel when the agent
\* has output_format "list", and run() turns to the agent the routing table
\* names, as after a successful call.
C21_FailedCallGoesOn ==
  \A m \in FailedCalls :
    LET stored == IF ListFormat(m) THEN PyList(<<LLMError>>) ELSE LLMError
    IN /\ Completed(m)
       /\ trace[m].out = Put(EmptyDict, DeclaredOutput(m), stored)
       /\ PostState(m)[Join(trace[m].agent, DeclaredOutput(m))] = stored
       /\ AgentAfter(m) = cfg.routing[trace[m].agent]
       /\ ~AbortedAt(m)

C21_Witness ==
  \E m \in FailedCalls :
    /\ ListFormat(m)
    /\ m < Len(trace)
    /\ <<"prev">> \in DOMAIN trace[m + 1].inputs
    /\ trace[m + 1].inputs[<<"prev">>] = PyList(<<LLMError>>)
    /\ status = "finished"

\* ------------------------------------------------------------ final outputs
Labels == {cfg.final_outputs[n].name : n \in 1..Len(cfg.final_outputs)}

PathOf(label) ==
  cfg.final_outputs[CHOOSE n \in 1..Len(cfg.final_outputs) :
                      cfg.final_outputs[n].name = label].src

\* What a label's path resolves to in the final State Store: the stored
\* value of a flat key, or the initial input descended field by field.
ResolvedAtEnd(source_path) ==
  IF StartsWith(source_path, InitialInputPrefix)
    THEN Descend(pipeline_state[InitialInputKey],
                 SubSeq(Split(source_path), 3, Len(Split(source_path))))
  ELSE IF source_path \in DOMAIN pipeline_state THEN pipeline_state[source_path]
  ELSE PyNone

\* C22: for a completed run get_final_outputs returns exactly one entry per
\* label of the final-outputs map: the value the label's path resolves to
\* in the final State Store, a sentinel error value written by a failed
\* model step included, or the 'not found' error string naming the path
\* when the path resolves to nothing.
C22_FinalOutputs ==
  status = "finished" =>
    /\ DOMAIN FinalOutputs = Labels
    /\ \A label \in Labels :
         FinalOutputs[label] =
           IF ResolvedAtEnd(PathOf(label)) = PyNone
             THEN NotFoundMessage(PathOf(label))
             ELSE ResolvedAtEnd(PathOf(label))
    /\ \A m \in FailedCalls :
         m = Len(trace) => FinalOutputs[<<"last">>] = trace[m].out[out_name]

C22_Witness ==
  /\ status = "finished"
  /\ Len(trace) \in FailedCalls
  /\ FinalOutputs[<<"last">>] = LLMError
  /\ FinalOutputs[<<"first">>] = PyStr(<<"seed">>)
  /\ FinalOutputs[<<"missing">>] = NotFoundMessage(Join(ghost, out_name))
  /\ FinalOutputs[<<"hint">>] = NotFoundMessage(InitialInputPrefix \o <<"hint">>)

\* -------------------------------------------- paths into the initial input
\* The iterations that resolved a 'pipeline.initial_input.<path>' source.
PrefixReads == {m \in Steps : StartsWith(cfg.knobs.path, InitialInputPrefix)}

\* <path> of the source path, as its fields.
FieldsOf(source_path) == SubSeq(Split(source_path), 3, Len(Split(source_path)))

\* Descending field by field, the last field last: NotFound (None) when a
\* field is absent or the value reached before it is not a mapping.
RECURSIVE FieldByField(_, _)
FieldByField(whole, fields) ==
  IF fields = <<>> THEN whole
  ELSE LET parent == FieldByField(whole, SubSeq(fields, 1, Len(fields) - 1))
           field == fields[Len(fields)]
       IN IF parent.t = "dict" /\ field \in DOMAIN parent.d
            THEN parent.d[field] ELSE PyNone

\* C23: resolving 'pipeline.initial_input.<path>' gives what descending
\* <path> field by field from the value of 'pipeline.initial_input' gives:
\* that value is the resolved input, and when it is NotFound the resolution
\* is the missing-input case (an error in the strict posture, a prompt in
\* the interactive one).
C23_PrefixIsDescent ==
  \A m \in PrefixReads :
    LET whole == trace[m].pre[InitialInputKey]
        found == FieldByField(whole, FieldsOf(cfg.knobs.path))
    IN IF found # PyNone
         THEN /\ Completed(m)
              /\ trace[m].prompted = <<>>
              /\ trace[m].inputs[value_name] = found
         ELSE IF test_mode
           THEN trace[m].err = "MissingInput"
           ELSE trace[m].prompted = <<cfg.knobs.path>>

C23_Witness ==
  /\ Len(trace) = 2
  /\ cfg.knobs.path = InitialInputPrefix \o <<"a", Dot, "b">>
  /\ trace[2].inputs[value_name] = PyInt(1)
  /\ trace[2].prompted = <<>>

\* ------------------------------------------------------------ state patches
\* The state patch returned by the agent of the m-th iteration.
PatchOf(m) ==
  IF UpdateStateKey \in DOMAIN trace[m].out /\ trace[m].out[UpdateStateKey].t = "dict"
    THEN trace[m].out[UpdateStateKey].d
    ELSE EmptyDict

\* Where the runner is to write a patch entry of agent X.
WrittenTo(X, key) == IF HasDot(key) THEN key ELSE X \o <<Dot>> \o key

\* The key is removed by the clear-outputs directive of the same iteration.
ClearedAt(m, x) ==
  /\ ClearKey \in DOMAIN trace[m].out
  /\ \E n \in 1..Len(trace[m].out[ClearKey].l) :
       StartsWith(x, trace[m].out[ClearKey].l[n].s \o <<Dot>>)

\* The keys under which the iteration's ordinary outputs are stored.
OutputKeys(m) ==
  {trace[m].agent \o <<Dot>> \o key : key \in DOMAIN trace[m].out \ {NextStepKey, UpdateStateKey}}

\* C24: when the executed agent X returns a state patch, each entry is
\* written to '<X>.<key>' if the key has no '.', and to the key as it is if
\* it has one (and is there after the step unless the step's clear-outputs
\* directive removes it); apart from these targets the step changes only
\* the keys of X's ordinary outputs and of prompted inputs.
C24_PatchTargets ==
  \A m \in Steps :
    LET X == trace[m].agent
        patch == PatchOf(m)
        targets == {WrittenTo(X, key) : key \in DOMAIN patch}
    IN (Completed(m) /\ patch # EmptyDict) =>
         /\ \A key \in DOMAIN patch :
              ~ClearedAt(m, WrittenTo(X, key)) =>
                /\ WrittenTo(X, key) \in DOMAIN PostState(m)
                /\ PostState(m)[WrittenTo(X, key)] = patch[key]
         /\ ChangedKeys(m) \subseteq targets \cup OutputKeys(m) \cup PromptedIn(m, m)

C24_Witness ==
  \E m \in Steps :
    /\ dotted_counter \in DOMAIN PatchOf(m)
    /\ all_items \in DOMAIN PatchOf(m)
    /\ dotted_counter \in DOMAIN PostState(m)
    /\ Join(router, dotted_counter) \notin DOMAIN PostState(m)
    /\ AccumulatorKey \in ChangedKeys(m)
    /\ dotted_counter \in ChangedKeys(m)

\* ------------------------------------------------- loop-mode result shapes
\* The loop configuration of the router and its completed loop-mode calls.
RouterLoop == cfg.agents[router].tool_config.loop_config

LoopCalls == {m \in Steps : trace[m].agent = router /\ Completed(m)}

AccumulatorNames == {RouterLoop.accumulators[n].out : n \in 1..Len(RouterLoop.accumulators)}

\* The counter the call read from the State Store (0 when absent).
CountReadAt(m) == Get(trace[m].pre, Join(router, RouterLoop.counter_name.s), PyInt(0))

ContinuationShape(m) ==
  LET result == trace[m].out
  IN /\ DOMAIN result = {NextStepKey, UpdateStateKey, ClearKey}
     /\ result[NextStepKey] = RouterLoop.loop_body_start_id
     /\ result[UpdateStateKey].t = "dict"
     /\ DOMAIN result[UpdateStateKey].d \subseteq
          {RouterLoop.counter_name.s} \cup AccumulatorNames
     /\ RouterLoop.counter_name.s \in DOMAIN result[UpdateStateKey].d
     /\ result[UpdateStateKey].d[RouterLoop.counter_name.s] =
          PyInt(CountReadAt(m).i + 1)
     /\ result[ClearKey] =
          PyList([n \in 1..Len(RouterLoop.loop_body_agents) |->
                    PyStr(RouterLoop.loop_body_agents[n])])

TerminationShape(m) ==
  LET result == trace[m].out
  IN /\ DOMAIN result = {NextStepKey} \cup AccumulatorNames
     /\ result[NextStepKey] = cfg.agents[router].tool_config.else_execute_step
     /\ \A name \in AccumulatorNames : result[name].t = "list"

\* The counter key of the State Store is as it was before the iteration.
CounterUntouched(m) ==
  \A x \in {Join(router, RouterLoop.counter_name.s), RouterLoop.counter_name.s} :
    /\ x \in DOMAIN PostState(m) <=> x \in DOMAIN trace[m].pre
    /\ x \in DOMAIN PostState(m) => PostState(m)[x] = trace[m].pre[x]

\* C25: every loop-mode result is exactly one of two shapes: a continuation
\* (override = loop_body_start_id, a patch holding the counter set to the
\* count read plus one and nothing but the counter and accumulators,
\* clear-outputs = loop_body_agents) or a termination (override = the
\* post-loop step, every accumulator's list as an ordinary output, neither a
\* patch nor a clear-outputs directive); a termination step leaves the
\* counter in the State Store unchanged.
C25_TwoShapes ==
  \A m \in LoopCalls :
    /\ ContinuationShape(m) \/ TerminationShape(m)
    /\ ~(ContinuationShape(m) /\ TerminationShape(m))
    /\ TerminationShape(m) => CounterUntouched(m)

C25_Witness ==
  \E m, j \in LoopCalls :
    /\ m < j
    /\ ContinuationShape(m)
    /\ TerminationShape(j)
    /\ CountReadAt(j) = PyInt(TotalN)
    /\ TotalN > 0
    /\ PostState(j)[CounterKey] = PyInt(TotalN)
    /\ trace[j].out[all_items].l # <<>>

\* ------------------------------------------------------ reports of aborts
\* The id occurs in the message.
Mentions(message, id) ==
  \E i \in 1..Len(message) :
    i + Len(id) - 1 <= Len(message) /\ SubSeq(message, i, i + Len(id) - 1) = id

\* C26: every aborted run reports which agent was executing: the error
\* run() raises (unknown agent, unknown tool, unsupported agent type,
\* missing input, loop configuration error) names the id of the agent of
\* the iteration that failed.
C26_AbortNamesAgent ==
  \A m \in Steps : AbortedAt(m) => Mentions(trace[m].msg, trace[m].agent)

\* ------------------------------------------------- append-only accumulators
\* The accumulator list in a State Store (empty when the key is absent).
ListIn(state) == Get(state, AccumulatorKey, PyList(<<>>))

\* The input that feeds the accumulator at the m-th iteration, if it is
\* present and neither None nor the empty string.
FeedOf(m) == RouterLoop.accumulators[1].in

Fed(m) ==
  /\ FeedOf(m) \in DOMAIN trace[m].inputs
  /\ trace[m].inputs[FeedOf(m)] # PyNone
  /\ trace[m].inputs[FeedOf(m)] # PyStr(<<>>)

\* C27: accumulator lists are append-only across a run: a router invocation
\* whose feeding input is present and neither None nor '' leaves the list
\* extended by exactly that element at the end, any other invocation leaves
\* it as it was; and no step of another agent changes the list.
C27_AppendOnly ==
  \A m \in Steps :
    IF m \in LoopCalls
      THEN ListIn(PostState(m)) =
             IF Fed(m)
               THEN PyList(Append(ListIn(trace[m].pre).l, trace[m].inputs[FeedOf(m)]))
               ELSE ListIn(trace[m].pre)
      ELSE ListIn(PostState(m)) = ListIn(trace[m].pre)

\* ------------------------------------------------- structured data parser
\* The iterations in which the parser called the model.
ParserCalls ==
  {m \in Steps : /\ trace[m].agent = extract
                 /\ trace[m].llm # PyNone
                 /\ Truthy(Get(trace[m].inputs, request, PyNone))}

DeclaredFields(m) == {AgentOf(m).outputs[n] : n \in 1..Len(AgentOf(m).outputs)}

\* What the response parses to, after the search for '{...}'.
ParsedAt(m) == JsonLoads(JsonMatch(trace[m].llm.s))

\* C28: the StructuredDataParserTool returns a value for every declared
\* output field for any model response and does not raise: the parsed value
\* when the parsed response has the field, 'Not found' when it lacks it,
\* 'Error: Failed to parse' for every field when the response is not valid
\* JSON.
C28_ParserNeverRaises ==
  \A m \in ParserCalls :
    /\ Completed(m)
    /\ \A field \in DeclaredFields(m) :
         /\ field \in DOMAIN trace[m].out
         /\ trace[m].out[field] =
              IF ~ParsedAt(m).ok THEN PyStr(<<"Error: Failed to parse">>)
              ELSE IF ParsedAt(m).value.t = "dict"
                        /\ field \in DOMAIN ParsedAt(m).value.d
                THEN ParsedAt(m).value.d[field]
              ELSE PyStr(<<"Not found">>)

\* ---------------------------------------------------------------- CLI main()
\* The Orchestrator exists or runs.
OrchestratorUsed == cli.created \/ status # "idle" \/ trace # <<>>

\* C29 as stated: the Orchestrator is constructed and run only after the
\* configuration was loaded and the operator typed exactly 'yes'; any other
\* answer exits with status 0.
C29_Original ==
  /\ OrchestratorUsed => cli.file = "object" /\ cli.answer = <<"y", "e", "s">>
  /\ (cli.pc \in {"run", "exit"} /\ cli.file = "object"
        /\ cli.answer # <<"y", "e", "s">>) => cli.exit_code = PyInt(0)

\* C29: main() constructs and runs the Orchestrator only after the
\* configuration was loaded and the operator's answer, stripped of
\* surrounding whitespace and lowercased, is 'yes'; any other answer exits
\* with status 0; a missing or invalid configuration file (or a failed
\* pipeline creation) exits with status 1; in both cases no Orchestrator is
\* created and no agent runs.
C29_RunOnlyIfConfirmed ==
  /\ OrchestratorUsed =>
       /\ cli.pc = "run"
       /\ cli.file = "object"
       /\ Lower(Strip(cli.answer)) = <<"y", "e", "s">>
       /\ cli.exit_code = PyNone
  /\ cli.pc = "exit" =>
       /\ ~OrchestratorUsed
       /\ cli.exit_code =
            IF cli.file = "object" THEN PyInt(0) ELSE PyInt(1)
       /\ cli.file = "object" => Lower(Strip(cli.answer)) # <<"y", "e", "s">>
  /\ cli.pc \in {"start", "load", "confirm"} => ~OrchestratorUsed

C29_Witness ==
  /\ cli.answer = <<" ", "y", "e", "s", " ">>
  /\ cli.created
  /\ status = "finished"
  /\ Len(trace) = 2

\* --------------------------------------------------- substitutes written back
\* C30: in the interactive posture, once the operator has supplied a
\* substitute for a source path that resolved to NotFound, every later
\* resolution of the same source path in the run returns that value without
\* a new prompt, for a flat path and for a 'pipeline.initial_input.<path>'
\* path alike (the pipelines here clear nothing).
C30_PromptedOnce ==
  \A m, j \in Steps :
    (m < j /\ trace[m].prompted = <<cfg.knobs.path>>) =>
      /\ trace[j].prompted = <<>>
      /\ value_name \in DOMAIN trace[j].inputs
      /\ trace[j].inputs[value_name] = trace[m].inputs[value_name]

\* ------------------------------------------- counter read and counter write
\* The router's call that follows the m-th iteration, if there is one.
NextLoopCall(m) == {j \in LoopCalls : j > m /\ \A q \in LoopCalls : q <= m \/ q >= j}

\* The key the router reads a name of its loop state from
\* (built_in_tools.py lines 217 and 254).
ReadKey(name) == Join(router, name)

\* C31: the State Store key from which the router reads its counter or an
\* accumulator is the key the runner writes the patched value to, names with
\* a '.' included: after a continuation every patched name is in the State
\* Store under the key the router reads, and the router's next call reads
\* the counter that was patched.
C31_ReadsWhatWasPatched ==
  \A m \in LoopCalls :
    IsContinuation(trace[m].out) =>
      /\ \A name \in DOMAIN PatchOf(m) :
           Get(PostState(m), ReadKey(name), PyNone) = PatchOf(m)[name]
      /\ \A j \in NextLoopCall(m) :
           CountReadAt(j) = PatchOf(m)[RouterLoop.counter_name.s]

\* ---------------------------------------------------- the router's two modes
\* The router's invocations, completed or not.
RouterCalls == {m \in Steps : trace[m].agent = router}

\* The result of a loop-mode invocation: one of the two loop shapes, or the
\* ValueError of a loop configuration that lacks its counter name.
LoopModeResult(m) ==
  IF Completed(m) THEN ContinuationShape(m) \/ TerminationShape(m)
  ELSE trace[m].err = "ValueError"

\* The result of a plain conditional invocation carries no state patch and
\* no clear-outputs directive.
PlainResult(m) ==
  Completed(m) =>
    /\ UpdateStateKey \notin DOMAIN trace[m].out
    /\ ClearKey \notin DOMAIN trace[m].out

\* C32: the router's mode is selected by the presence of 'loop_config' in
\* its tool config: when it is present, whatever its contents (an empty
\* object included), the router runs in loop mode and does not evaluate
\* condition_groups; when it is absent the router runs in plain conditional
\* mode and emits neither a state patch nor a clear-outputs directive.
C32_ModeByPresence ==
  \A m \in RouterCalls :
    IF RouterLoop.present THEN LoopModeResult(m) ELSE PlainResult(m)

\* ------------------------------------------------- the order within a step
\* The keys the m-th iteration wrote: its ordinary outputs and the targets
\* of its state patch.
PatchTargets(m) == {WrittenTo(trace[m].agent, key) : key \in DOMAIN PatchOf(m)}

WrittenAt(m) == OutputKeys(m) \cup PatchTargets(m)

\* What the iteration wrote to key x: the patch entry when there is one (the
\* patch is applied after the merge of the ordinary outputs).
ValueWritten(m, x) ==
  IF x \in PatchTargets(m)
    THEN PatchOf(m)[CHOOSE key \in DOMAIN PatchOf(m) :
                      WrittenTo(trace[m].agent, key) = x]
    ELSE trace[m].out[CHOOSE key \in DOMAIN trace[m].out :
                        trace[m].agent \o <<Dot>> \o key = x]

\* C33: within one step the runner merges the ordinary outputs, applies the
\* state patch, applies the clear-outputs directive and then selects the
\* next agent: a key the step wrote (by ordinary output or by patch) under
\* the prefix of an agent of that step's clear-outputs list is absent from
\* the State Store at the end of the step, and every other key it wrote
\* holds the value written.
C33_StepOrder ==
  \A m \in Steps :
    Completed(m) =>
      \A x \in WrittenAt(m) :
        IF ClearedAt(m, x)
          THEN x \notin DOMAIN PostState(m)
          ELSE /\ x \in DOMAIN PostState(m)
               /\ PostState(m)[x] = ValueWritten(m, x)

C33_Witness ==
  \E m \in Continuations :
    /\ CounterKey \in PatchTargets(m)
    /\ ClearedAt(m, CounterKey)
    /\ CounterKey \notin DOMAIN PostState(m)
    /\ Join(router, ClearKey) \in OutputKeys(m)
    /\ Join(router, ClearKey) \notin DOMAIN PostState(m)
    /\ AgentAfter(m) = PyStr(gen)

\* ------------------------------------------------------ the counter's range
\* The counter key is absent from the State Store, or holds an integer of
\* 0..N.
CounterInRange(state) ==
  CounterKey \in DOMAIN state =>
    /\ state[CounterKey].t = "int"
    /\ 0 <= state[CounterKey].i
    /\ state[CounterKey].i <= TotalN

\* C34: for a loop router with constant total_iterations N, in every state
\* of a run the counter 'router.<counter_name>' is either absent or an
\* integer c with 0 <= c <= N, and it never decreases from one state to the
\* next (an absent counter counting as 0, the value the router reads then).
C34_CounterRange ==
  /\ \A m \in 0..Len(trace) : CounterInRange(PostState(m))
  /\ \A m \in Steps :
       CounterIn(PostState(m - 1)).t = "int" /\ CounterIn(PostState(m)).t = "int"
         => CounterIn(PostState(m - 1)).i <= CounterIn(PostState(m)).i

\* ------------------------------------------ loop state after a continuation
\* C35: after every continuation step of the loop router with count c the
\* State Store holds 'router.<counter_name>' = c + 1 and, under
\* 'router.<accumulatorName>', every accumulator list the step patched,
\* whatever loop_body_agents lists (the router itself included).
C35_ContinuationKeepsLoopState ==
  \A m \in Continuations :
    /\ Get(PostState(m), CounterKey, PyNone) = PyInt(CounterIn(trace[m].pre).i + 1)
    /\ \A name \in DOMAIN PatchOf(m) :
         Get(PostState(m), Join(router, name), PyNone) = PatchOf(m)[name]

\* ------------------------------------------------- the counter is not reset
\* C36: the router never resets its counter: once the loop router has
\* emitted a termination directive, every later invocation of it in the
\* same run (same total_iterations, no other agent clearing its keys) emits
\* a termination directive again and the run goes on at the post-loop step,
\* not in the loop body.
C36_NoReentry ==
  \A m \in Terminations :
    \A j \in RouterCalls :
      j > m =>
        /\ j \in Terminations
        /\ AgentAfter(j) = cfg.agents[router].tool_config.else_execute_step
        /\ CounterIn(PostState(j)) = CounterIn(trace[m].pre)

C36_Witness ==
  \E m, j \in Terminations :
    /\ m < j
    /\ TotalN >= 1
    /\ ContinuationsBefore(m) = TotalN
    /\ CounterIn(trace[j].pre) = PyInt(TotalN)
    /\ AgentAfter(j) = PyStr(post)
    /\ \E q \in Steps : m < q /\ q < j /\ trace[q].agent = post /\ Completed(q)

\* ------------------------------------------- what a clear-outputs removes
\* The iterations whose result carries a clear-outputs directive.
ClearingSteps == {m \in Steps : Completed(m) /\ ClearKey \in DOMAIN trace[m].out}

\* The keys the State Store holds when the directive is applied: those it
\* had before the iteration and those the iteration wrote.
KeysBeforeClear(m) == DOMAIN trace[m].pre \cup WrittenAt(m) \cup PromptedIn(m, m)

\* C37: applying a clear-outputs directive removes exactly the State Store
\* keys that start with '<id>.' for an id of the list and leaves every
\* other key and its value as it was: 'pipeline.initial_input' and the keys
\* of the agents that are not named survive, also those of an agent whose
\* id starts with a named id without the '.' after it.
C37_ClearsExactlyPrefixed ==
  \A m \in ClearingSteps :
    /\ DOMAIN PostState(m) = {x \in KeysBeforeClear(m) : ~ClearedAt(m, x)}
    /\ \A x \in DOMAIN trace[m].pre :
         ~ClearedAt(m, x) /\ x \notin WrittenAt(m) =>
           PostState(m)[x] = trace[m].pre[x]
    /\ InitialInputKey \in DOMAIN PostState(m)
    /\ \A a \in DOMAIN cfg.agents :
         (\A n \in 1..Len(trace[m].out[ClearKey].l) :
            trace[m].out[ClearKey].l[n].s # a)
           => KeysOf(a, PostState(m)) \ WrittenAt(m) = KeysOf(a, trace[m].pre) \ WrittenAt(m)

C37_Witness ==
  \E m \in ClearingSteps :
    /\ Join(gen, text) \in DOMAIN trace[m].pre
    /\ Join(gen, text) \notin DOMAIN PostState(m)
    /\ Join(gen2, <<"seen">>) \in DOMAIN trace[m].pre
    /\ Join(gen2, <<"seen">>) \in DOMAIN PostState(m)
    /\ PostState(m)[InitialInputKey] = trace[m].pre[InitialInputKey]
    /\ \E n \in 1..Len(trace[m].out[ClearKey].l) : trace[m].out[ClearKey].l[n].s = gen

\* ------------------------------------------------ null next-step overrides
\* The iterations whose result carries a next-step override that is null or
\* empty.
NullOverrides ==
  {m \in Steps : /\ Completed(m)
                 /\ NextStepKey \in DOMAIN trace[m].out
                 /\ ~Truthy(trace[m].out[NextStepKey])}

\* The RoutingTable entry of the agent of the m-th iteration.
StaticNext(m) == Get(cfg.routing, trace[m].agent, PyNone)

\* C38: a next-step override that is present but null or empty does not end
\* the run by itself: the runner takes the RoutingTable entry of the current
\* agent, so a loop that terminates with no post-loop step configured goes
\* on at the router's static 'next', and the run ends there only when that
\* entry is null too.
C38_NullOverrideFallsBack ==
  \A m \in NullOverrides :
    /\ AgentAfter(m) = StaticNext(m)
    /\ m = Len(trace) =>
         status = IF Truthy(StaticNext(m)) THEN "running" ELSE "finished"
    /\ m < Len(trace) => Truthy(StaticNext(m))

C38_Witness ==
  \E m \in Terminations \cap NullOverrides :
    /\ TotalN >= 1
    /\ cfg.agents[router].tool_config.else_execute_step = PyNone
    /\ StaticNext(m) = PyStr(post)
    /\ m < Len(trace)
    /\ trace[m + 1].agent = post
    /\ Completed(m + 1)
    /\ status = "finished"

\* ------------------------------------------------ the display of the flow
\* The agent lines printed so far, in order.
AgentLines == SelectSeq(cli.printed, LAMBDA line : line.kind = "agent")

\* The display is in or past its loop.
Displaying == cli.pc \in {"loop", "after", "returned"} /\ Len(cli.printed) >= 1

\* The lines follow the static 'next' edges from start_agent, numbered 1, 2, ...
FollowsRouting ==
  \A n \in 1..Len(AgentLines) :
    /\ AgentLines[n].step = n
    /\ AgentLines[n].id \in DOMAIN cfg.agents
    /\ AgentLines[n].id =
         IF n = 1 THEN cfg.start_agent.s
         ELSE Get(cfg.routing, AgentLines[n - 1].id, PyNone).s
    /\ AgentLines[n].next = Get(cfg.routing, AgentLines[n].id, PyNone)

PrintedOnce ==
  \A n, q \in 1..Len(AgentLines) : n # q => AgentLines[n].id # AgentLines[q].id

\* Where the display stopped: the agent after the last one printed is
\* null, not defined, or already printed.
StoppedAt ==
  LET last == AgentLines[Len(AgentLines)].next
  IN \/ ~Truthy(last)
     \/ last.s \notin DOMAIN cfg.agents
     \/ \E n \in 1..Len(AgentLines) : AgentLines[n].id = last.s

\* C39: display_pipeline_flow terminates for every configuration, a routing
\* table with a cycle included: it follows the static 'next' edges from
\* start_agent, prints each agent at most once (so its loop runs at most
\* once per defined agent and once more for an undefined one), is never
\* stuck before it returns, and returns at a null next, an undefined agent
\* or the first agent already visited.
C39_FlowTerminates ==
  Displaying =>
    /\ FollowsRouting
    /\ PrintedOnce
    /\ Len(AgentLines) <= Cardinality(DOMAIN cfg.agents)
    /\ Cardinality(cli.visited_agents) <= Cardinality(DOMAIN cfg.agents) + 1
    /\ cli.step_number = Len(AgentLines) + 1
    /\ cli.pc # "returned" => ENABLED FlowNext
    /\ cli.pc = "returned" /\ AgentLines # <<>> => StoppedAt

C39_Witness ==
  /\ cli.pc = "returned"
  /\ Len(AgentLines) = 3
  /\ AgentLines[3].next = PyStr(AgentLines[1].id)
  /\ cli.printed[Len(cli.printed)].kind = "warning"
  /\ cli.visited_agents = FlowAgents

====
